---- MODULE Spec2Model ----
(***************************************************************************)
(* Verification model of the CrabCache Node.js client:                     *)
(*   - CrabCacheConnection (src/src/connection.ts): connect, request       *)
(*     queue, framing of the reply stream, timers and socket events;       *)
(*   - ConnectionPool (src/src/pool.ts): acquire/release, creation,        *)
(*     warm-up, health check, eviction;                                    *)
(*   - CrabCacheClient in cluster mode (lib client, src/unnamed/part_004): *)
(*     node health checks, node selection and executeCommand;              *)
(*   - CrabCachePipeline (lib pipeline, src/unnamed/part_005) with the     *)
(*     ProtocolEncoder and ProtocolDecoder (src/src/protocol.ts).          *)
(* Each layer has its own specification (SpecConn, SpecPool, SpecCluster); *)
(* the variables of the other layers keep their initial values.            *)
(*                                                                         *)
(* Node.js runs every handler to completion on one event loop, so every    *)
(* action below is one handler together with the promise continuations it  *)
(* wakes.  A net.Socket that failed or was destroyed emits 'close' later,  *)
(* from the callback that closes its handle: between destroy() (or the     *)
(* 'error' event) and 'close' other handlers may run.                      *)
(***************************************************************************)
EXTENDS Integers, Sequences, FiniteSets, TLC

VARIABLES
    \* ---- CrabCacheConnection ----
    useBinaryProtocol,  \* config.useBinaryProtocol
    sock,               \* state of the net.Socket (environment)
    connected,          \* this.connected
    connecting,         \* this.connecting
    responseBuffer,     \* this.responseBuffer, a sequence of bytes
    pendingResponses,   \* this.pendingResponses, a sequence of request ids
    req,                \* the promise and timer of every request created
    nreq,               \* number of requests created so far
    writes,             \* socket.write calls whose callback has not run yet
    callers,            \* the callers of connect() and their promises
    attempts,           \* number of socket.connect() calls
    wire,               \* bytes the peer has sent that no data event delivered yet
    sent,               \* request ids in the order their writes succeeded
    served,             \* number of requests the peer has answered
    frames,             \* the reply frames the peer has produced, in order
    delivered,          \* <<request, frame>> pairs in the order handleData matched them
    clean,              \* no write failed and the queue was never flushed
    \* ---- ConnectionPool ----
    pool,               \* this.connections, a sequence of pooled records
    conn,               \* per connection object: its life cycle
    acq,                \* per acquire() call: its position
    metrics,            \* this.metrics
    probe,              \* per connection: whether a health probe is outstanding
    consec,             \* per pooled connection: its consecutive failed probes so far
    warm,               \* the warmUp() call: its state, the creations it still
                        \* awaits and, while it runs, its
                        \* Math.min(minConnections, poolSize)
    \* ---- CrabCacheClient ----
    enableCluster,      \* config.enableCluster (with a non-empty config.nodes)
    strategy,           \* config.loadBalancingStrategy
    active,             \* clusterNodes[n].active
    status,             \* nodeMetrics[n].healthCheckStatus
    nodeUp,             \* whether the server of node n answers (environment)
    hc,                 \* per node: whether its health check is running
    leaked,             \* per node: connections a health check acquired and kept
    currentNodeIndex,   \* this.currentNodeIndex
    failoverEvents,     \* clientMetrics.failoverEvents
    selected,           \* outcome of the last selectNode() call
    op,                 \* the last cache operation and how it ended
    \* ---- CrabCachePipeline ----
    pipeBinary,         \* this.useBinaryProtocol of the pipeline
    overPool,           \* typeof this.connection.acquire === 'function'
    commands,           \* this.commands, a sequence of {command, args}
    px,                 \* the execute() call in progress or last settled
    results,            \* what the last execute() resolved with
    batch,              \* the executeBatched() call in progress or last settled
    \* ---- CrabCacheClient: the maps of the cluster and the calls on it ----
    clusterNodes,       \* keys of this.clusterNodes
    nodeConnections,    \* keys of this.nodeConnections
    nodeMetrics,        \* keys of this.nodeMetrics
    cc,                 \* the connect() call: its state, each node's warm-up, the
                        \* nodes reported with nodeConnectionFailed
    arg,                \* the argument of the last call of a static function
    ret,                \* what that call returned or threw
    \* ---- CrabCacheClient: events and counters ----
    listening,          \* whether listeners are registered on the client
    emitted,            \* the events the listeners received in the last
                        \* health-check step, in order
    clientMetrics       \* this.clientMetrics: the request counters

connVars == <<useBinaryProtocol, sock, connected, connecting, responseBuffer,
              pendingResponses, req, nreq, writes, callers, attempts, wire,
              sent, served, frames, delivered, clean>>
poolVars == <<pool, conn, acq, metrics, probe, consec, warm>>
clusterVars == <<enableCluster, strategy, active, status, nodeUp, hc, leaked,
                 currentNodeIndex, failoverEvents, selected, op>>
pipeVars == <<pipeBinary, overPool, commands, px, results, batch>>
callVars == <<clusterNodes, nodeConnections, nodeMetrics, cc, arg, ret>>
obsVars == <<listening, emitted, clientMetrics>>
vars == <<connVars, poolVars, clusterVars, pipeVars, callVars, obsVars>>

(***************************************************************************)
(* Bounds of the model.                                                    *)
(***************************************************************************)
MaxReq == 2         \* requests created on the connection
MaxCallers == 2     \* callers of connect()
PoolSize == 1       \* config.poolSize
MaxConn == 2        \* connection objects a pool creates
MaxAcq == 2         \* acquire() calls on a pool
MaxOps == 3         \* public operations of a client
NumNodes == 2       \* config.nodes.length
MaxSelect == 3      \* round-robin selections (currentNodeIndex)
MaxFailovers == 2   \* active -> inactive flips (failoverEvents)

(***************************************************************************)
(* Bytes of the wire formats (src/src/connection.ts, extract*Response).    *)
(***************************************************************************)
CR == 13
LF == 10
RESP_OK == 16
RESP_PONG == 17
RESP_NULL == 18
RESP_ERROR == 19
RESP_VALUE == 20
RESP_STATS == 21

\* The reply the peer sends to the k-th request it received: the payload of a
\* text reply (the CRLF is added on the wire) or a complete binary reply.
\* Consecutive replies differ, so that a reply matched to the wrong request shows.
TextReply(k) == IF k % 2 = 1 THEN <<79, 75>> ELSE <<CR>>
BinaryReply(k) == IF k % 2 = 1 THEN <<RESP_VALUE, 1, 0, 0, 0, RESP_OK>> ELSE <<RESP_OK>>
Reply(binary, k) == IF binary THEN BinaryReply(k) ELSE TextReply(k)
OnWire(binary, f) == IF binary THEN f ELSE f \o <<CR, LF>>

NoReq == [st |-> "none", timer |-> FALSE, val |-> <<>>, err |-> "", kind |-> ""]

Min(a, b) == IF a < b THEN a ELSE b
Slice(s, from, to) == SubSeq(s, from + 1, to)   \* Buffer.slice(from, to), 0-based

(***************************************************************************)
(* Framing: extractTextResponse, extractBinaryResponse, handleData.        *)
(***************************************************************************)
NoFrame(buf) == [found |-> FALSE, response |-> <<>>, rest |-> buf]

\* Buffer.indexOf('\r\n'): 0-based index of the first CR LF pair, or -1.
IndexOfCRLF(buf) ==
    LET hits == { i \in 0..(Len(buf) - 2) : buf[i + 1] = CR /\ buf[i + 2] = LF }
    IN  IF hits = {} THEN -1 ELSE CHOOSE i \in hits : \A j \in hits : i <= j

extractTextResponse(buf) ==
    LET crlfIndex == IndexOfCRLF(buf)
    IN  IF crlfIndex = -1
        THEN NoFrame(buf)
        ELSE [found |-> TRUE,
              response |-> Slice(buf, 0, crlfIndex),
              rest |-> Slice(buf, crlfIndex + 2, Len(buf))]

\* Buffer.readUInt32LE(off)
ReadUInt32LE(buf, off) ==
    buf[off + 1] + 256 * buf[off + 2] + 65536 * buf[off + 3] + 16777216 * buf[off + 4]

extractBinaryResponse(buf) ==
    IF Len(buf) = 0 THEN NoFrame(buf)
    ELSE LET responseType == buf[1] IN
         IF responseType \in {RESP_OK, RESP_PONG, RESP_NULL}
         THEN [found |-> TRUE, response |-> Slice(buf, 0, 1),
               rest |-> Slice(buf, 1, Len(buf))]
         ELSE IF responseType \in {RESP_ERROR, RESP_VALUE, RESP_STATS}
         THEN IF Len(buf) < 5 THEN NoFrame(buf)
              ELSE LET totalLength == 1 + 4 + ReadUInt32LE(buf, 1) IN
                   IF Len(buf) < totalLength THEN NoFrame(buf)
                   ELSE [found |-> TRUE, response |-> Slice(buf, 0, totalLength),
                         rest |-> Slice(buf, totalLength, Len(buf))]
         ELSE NoFrame(buf)     \* the thrown error is caught: null

extractResponse(binary, buf) ==
    IF binary THEN extractBinaryResponse(buf) ELSE extractTextResponse(buf)

\* A dequeue from the wrong end (pop() in place of shift()).
ShiftPendingLast(pend) ==
    [who |-> pend[Len(pend)], rest |-> SubSeq(pend, 1, Len(pend) - 1)]

\* this.pendingResponses.shift(): the record taken and the queue left.
ShiftPending(pend) == [who |-> Head(pend), rest |-> Tail(pend)]

\* The while loop of handleData over the buffer (the new data appended) and
\* the queue: the buffer and queue left, and the <<request, frame>> matches.
RECURSIVE HandleLoop(_, _, _, _)
HandleLoop(binary, buf, pend, out) ==
    IF Len(buf) > 0 /\ Len(pend) > 0
    THEN LET r == extractResponse(binary, buf) IN
         IF r.found
         THEN LET p == ShiftPending(pend)
              IN  HandleLoop(binary, r.rest, p.rest, Append(out, <<p.who, r.response>>))
         ELSE [buf |-> buf, pend |-> pend, out |-> out]
    ELSE [buf |-> buf, pend |-> pend, out |-> out]

\* A handler that drops what the previous chunks left in the buffer.
handleDataNoCarry(binary, buf, data, pend) == HandleLoop(binary, data, pend, <<>>)

\* handleData(data): Buffer.concat([this.responseBuffer, data]), then the loop.
handleData(binary, buf, data, pend) == HandleLoop(binary, buf \o data, pend, <<>>)

(***************************************************************************)
(* ProtocolEncoder and ProtocolDecoder (src/src/protocol.ts).  Strings are *)
(* sequences of character codes (ASCII); a command is {command, args}.     *)
(***************************************************************************)
CMD_PING == 1
CMD_PUT == 2
CMD_GET == 3
CMD_DEL == 4
CMD_EXPIRE == 5
CMD_STATS == 6
CMD_METRICS == 7

S_PING == <<80, 73, 78, 71>>
S_PUT == <<80, 85, 84>>
S_GET == <<71, 69, 84>>
S_DEL == <<68, 69, 76>>
S_EXPIRE == <<69, 88, 80, 73, 82, 69>>
S_STATS == <<83, 84, 65, 84, 83>>
S_METRICS == <<77, 69, 84, 82, 73, 67, 83>>
S_OK == <<79, 75>>
S_PONG == <<80, 79, 78, 71>>
S_NULL == <<78, 85, 76, 76>>
S_ERROR_COLON == <<69, 82, 82, 79, 82, 58>>
S_STATS_COLON == <<83, 84, 65, 84, 83, 58>>

\* Buffer.slice(from, to) and String.substring(from, to): clamped to the length.
BufferSlice(s, from, to) ==
    LET a == Min(from, Len(s))
        b == Min(to, Len(s))
    IN  IF b <= a THEN <<>> ELSE SubSeq(s, a + 1, b)

StartsWith(s, prefix) ==
    Len(s) >= Len(prefix) /\ SubSeq(s, 1, Len(prefix)) = prefix

\* String.trim(): white space is removed at both ends.
IsSpace(b) == b \in {9, 10, 11, 12, 13, 32}

RECURSIVE TrimStart(_)
TrimStart(s) ==
    IF s # <<>> /\ IsSpace(Head(s)) THEN TrimStart(Tail(s)) ELSE s

RECURSIVE TrimEnd(_)
TrimEnd(s) ==
    IF s # <<>> /\ IsSpace(s[Len(s)]) THEN TrimEnd(SubSeq(s, 1, Len(s) - 1)) ELSE s

Trim(s) == TrimEnd(TrimStart(s))

\* parseInt(string): the leading decimal digits after an optional minus sign;
\* NaN when there is none.
IsDigit(b) == b \in 48..57

RECURSIVE ParseDigits(_, _)
ParseDigits(s, acc) ==
    IF s # <<>> /\ IsDigit(Head(s))
    THEN ParseDigits(Tail(s), 10 * acc + (Head(s) - 48))
    ELSE acc

parseInt(str) ==
    LET s == TrimStart(str)
        neg == s # <<>> /\ Head(s) = 45
        d == IF neg THEN Tail(s) ELSE s
    IN  IF d = <<>> \/ ~IsDigit(Head(d))
        THEN [nan |-> TRUE, val |-> 0]
        ELSE [nan |-> FALSE, val |-> IF neg THEN 0 - ParseDigits(d, 0) ELSE ParseDigits(d, 0)]

\* encodeVarint(value)
RECURSIVE encodeVarint(_)
encodeVarint(num) ==
    IF num >= 128
    THEN <<IF num % 256 >= 128 THEN num % 256 ELSE (num % 256) + 128>>
            \o encodeVarint(num \div 128)
    ELSE <<num % 256>>

\* writeBigUInt64LE(BigInt(v)): BigInt throws on NaN, the write on a negative.
RECURSIVE LEBytes(_, _)
LEBytes(v, n) == IF n = 0 THEN <<>> ELSE <<v % 256>> \o LEBytes(v \div 256, n - 1)

U64LE(v) == LEBytes(v, 8)

Thrown(msg) == [threw |-> TRUE, bytes |-> <<>>, error |-> msg]
Encoded(b) == [threw |-> FALSE, bytes |-> b, error |-> ""]

\* encodeTextCommand(command, args): parts.join(' ') + '\r\n'
RECURSIVE JoinArgs(_)
JoinArgs(args) ==
    IF args = <<>> THEN <<>> ELSE <<32>> \o Head(args) \o JoinArgs(Tail(args))

encodeTextCommand(cmd) == Encoded(cmd.command \o JoinArgs(cmd.args) \o <<CR, LF>>)

\* encodeBinaryCommand(command, args)
encodeBinaryCommand(cmd) ==
    LET c == cmd.command
        a == cmd.args
        keyed(code) == Encoded(<<code>> \o encodeVarint(Len(a[1])) \o a[1])
    IN  IF c = S_PING THEN Encoded(<<CMD_PING>>)
        ELSE IF c = S_PUT
        THEN IF Len(a) < 2 THEN Thrown("PUT requires key and value")
             ELSE LET head == <<CMD_PUT>> \o encodeVarint(Len(a[1])) \o a[1]
                                \o encodeVarint(Len(a[2])) \o a[2]
                  IN  IF Len(a) >= 3 /\ a[3] # <<>>
                      THEN LET ttl == parseInt(a[3]) IN
                           IF ttl.nan \/ ttl.val < 0 THEN Thrown("RangeError")
                           ELSE Encoded(head \o <<1>> \o U64LE(ttl.val))
                      ELSE Encoded(head \o <<0>>)
        ELSE IF c = S_GET
        THEN IF Len(a) < 1 THEN Thrown("GET requires key") ELSE keyed(CMD_GET)
        ELSE IF c = S_DEL
        THEN IF Len(a) < 1 THEN Thrown("DEL requires key") ELSE keyed(CMD_DEL)
        ELSE IF c = S_EXPIRE
        THEN IF Len(a) < 2 THEN Thrown("EXPIRE requires key and ttl")
             ELSE LET ttl == parseInt(a[2]) IN
                  IF ttl.nan \/ ttl.val < 0 THEN Thrown("RangeError")
                  ELSE Encoded(keyed(CMD_EXPIRE).bytes \o U64LE(ttl.val))
        ELSE IF c = S_STATS THEN Encoded(<<CMD_STATS>>)
        ELSE IF c = S_METRICS THEN Encoded(<<CMD_METRICS>>)
        ELSE Thrown("Unknown command")

encodeCommand(binary, cmd) ==
    IF binary THEN encodeBinaryCommand(cmd) ELSE encodeTextCommand(cmd)

\* decodeVarint(data): [result, bytesRead], or 'Varint too long'.
RECURSIVE VarintLoop(_, _, _, _)
VarintLoop(data, i, result, shift) ==
    IF i > Len(data) THEN [threw |-> FALSE, result |-> result, bytesRead |-> i - 1]
    ELSE LET byte == data[i]
             r == result + (byte % 128) * (2 ^ shift)
         IN  IF byte < 128 THEN [threw |-> FALSE, result |-> r, bytesRead |-> i]
             ELSE IF shift + 7 >= 32 THEN [threw |-> TRUE, result |-> 0, bytesRead |-> i]
             ELSE VarintLoop(data, i + 1, r, shift + 7)

decodeVarint(data) == VarintLoop(data, 1, 0, 0)

Decoded(t, d) == [threw |-> FALSE, type |-> t, data |-> d, error |-> ""]
DecodeThrown(msg) == [threw |-> TRUE, type |-> "", data |-> <<>>, error |-> msg]

\* decodeTextResponse(data); the JSON text of a STATS reply stands for its value.
decodeTextResponse(data) ==
    LET response == Trim(data) IN
    IF response = S_OK THEN Decoded("ok", <<>>)
    ELSE IF response = S_PONG THEN Decoded("pong", <<>>)
    ELSE IF response = S_NULL THEN Decoded("null", <<>>)
    ELSE IF StartsWith(response, S_ERROR_COLON)
    THEN Decoded("error", Trim(BufferSlice(response, 6, Len(response))))
    ELSE IF StartsWith(response, S_STATS_COLON)
    THEN Decoded("stats", Trim(BufferSlice(response, 6, Len(response))))
    ELSE Decoded("value", response)

\* The length-prefixed body of a binary ERROR, VALUE or STATS reply.
DecodeBody(t, data) ==
    LET v == decodeVarint(BufferSlice(data, 1, Len(data))) IN
    IF v.threw THEN DecodeThrown("Varint too long")
    ELSE LET cursor == 1 + v.bytesRead
         IN  Decoded(t, BufferSlice(data, cursor, cursor + v.result))

\* A decoder whose default branch assumes a value, as the text decoder does.
decodeBinaryResponseAssumeValue(data) ==
    IF Len(data) = 0 THEN DecodeThrown("Empty binary response")
    ELSE LET responseType == data[1] IN
         IF responseType = RESP_OK THEN Decoded("ok", <<>>)
         ELSE IF responseType = RESP_PONG THEN Decoded("pong", <<>>)
         ELSE IF responseType = RESP_NULL THEN Decoded("null", <<>>)
         ELSE IF responseType = RESP_ERROR THEN DecodeBody("error", data)
         ELSE IF responseType = RESP_VALUE THEN DecodeBody("value", data)
         ELSE IF responseType = RESP_STATS THEN DecodeBody("stats", data)
         ELSE Decoded("value", data)

\* decodeBinaryResponse(data)
decodeBinaryResponse(data) ==
    IF Len(data) = 0 THEN DecodeThrown("Empty binary response")
    ELSE LET responseType == data[1] IN
         IF responseType = RESP_OK THEN Decoded("ok", <<>>)
         ELSE IF responseType = RESP_PONG THEN Decoded("pong", <<>>)
         ELSE IF responseType = RESP_NULL THEN Decoded("null", <<>>)
         ELSE IF responseType = RESP_ERROR THEN DecodeBody("error", data)
         ELSE IF responseType = RESP_VALUE THEN DecodeBody("value", data)
         ELSE IF responseType = RESP_STATS THEN DecodeBody("stats", data)
         ELSE DecodeThrown("Unknown binary response type")

decodeResponse(binary, data) ==
    IF binary THEN decodeBinaryResponse(data) ELSE decodeTextResponse(data)

(***************************************************************************)
(* The completion record of a request: resolve and reject clear the timer  *)
(* and settle the promise, which keeps its first outcome.                  *)
(***************************************************************************)
ResolveRec(r, frame) ==
    IF r.st = "pending"
    THEN [r EXCEPT !.st = "resolved", !.val = frame, !.timer = FALSE]
    ELSE [r EXCEPT !.timer = FALSE]

RejectRec(r, e) ==
    IF r.st = "pending"
    THEN [r EXCEPT !.st = "rejected", !.err = e, !.timer = FALSE]
    ELSE [r EXCEPT !.timer = FALSE]

Range(s) == { s[i] : i \in 1..Len(s) }

\* rejectPendingResponses(error): every queued record is rejected.
RejectAll(rq, pend, e) ==
    [i \in DOMAIN rq |-> IF i \in Range(pend) THEN RejectRec(rq[i], e) ELSE rq[i]]

\* The records matched by one handleData call are resolved with their frames.
ResolveMatched(rq, out) ==
    [i \in DOMAIN rq |->
        IF \E k \in 1..Len(out) : out[k][1] = i
        THEN ResolveRec(rq[i], out[CHOOSE k \in 1..Len(out) : out[k][1] = i][2])
        ELSE rq[i]]

(***************************************************************************)
(* CrabCacheConnection: state after construction.                          *)
(***************************************************************************)
ReqIds == 1..MaxReq
CallerIds == 1..MaxCallers

InitConn ==
    /\ useBinaryProtocol \in BOOLEAN
    /\ sock = "idle"
    /\ connected = FALSE
    /\ connecting = FALSE
    /\ responseBuffer = <<>>
    /\ pendingResponses = <<>>
    /\ req = [i \in ReqIds |-> NoReq]
    /\ nreq = 0
    /\ writes = <<>>
    /\ callers = [c \in CallerIds |-> "idle"]
    /\ attempts = 0
    /\ wire = <<>>
    /\ sent = <<>>
    /\ served = 0
    /\ frames = <<>>
    /\ delivered = <<>>
    /\ clean = TRUE

\* No 'close' event of the socket is due.
Alive == sock # "destroyed"

\* What socket.destroy() does to the socket: 'close' becomes due.
Destroyed(s) == IF s \in {"connecting", "open"} THEN "destroyed" ELSE s

(***************************************************************************)
(* connect()                                                               *)
(***************************************************************************)
\* Where a caller of connect() stands after the synchronous part of the call.
ConnectBranch(isConnected, isConnecting) ==
    IF isConnected THEN "resolved"
    ELSE IF isConnecting THEN "shared"
    ELSE "init"

\* A new attempt is not started on a socket whose 'close' is still due.
Connect(c) ==
    /\ ConnectBranch(connected, connecting) = "init" => Alive
    /\ callers[c] = "idle"
    /\ \A d \in CallerIds : d < c => callers[d] # "idle"   \* callers are interchangeable
    /\ LET b == ConnectBranch(connected, connecting) IN
       /\ callers' = [callers EXCEPT ![c] = b]
       /\ IF b = "init"
          THEN /\ connecting' = TRUE
               /\ sock' = "connecting"
               /\ attempts' = attempts + 1
          ELSE UNCHANGED <<connecting, sock, attempts>>
    /\ UNCHANGED <<useBinaryProtocol, connected, responseBuffer, pendingResponses,
                   req, nreq, writes, wire, sent, served, frames, delivered, clean>>
    /\ UNCHANGED <<poolVars, clusterVars, pipeVars, callVars, obsVars>>

\* The timer of the caller that started the attempt expires.
ConnectTimeoutWaiters(cs, c) == [d \in DOMAIN cs |-> IF d = c THEN "rejected" ELSE cs[d]]

ConnectTimeout(c) ==
    /\ callers[c] = "init"
    /\ sock' = Destroyed(sock)
    /\ callers' = ConnectTimeoutWaiters(callers, c)
    /\ UNCHANGED <<useBinaryProtocol, connected, connecting, responseBuffer,
                   pendingResponses, req, nreq, writes, attempts, wire, sent, served,
                   frames, delivered, clean>>
    /\ UNCHANGED <<poolVars, clusterVars, pipeVars, callVars, obsVars>>

(***************************************************************************)
(* Socket events (setupSocketEvents and the once-listeners of connect()).  *)
(***************************************************************************)
SocketConnect ==
    /\ sock = "connecting"
    /\ sock' = "open"
    /\ connected' = TRUE
    /\ connecting' = FALSE
    /\ callers' = [c \in CallerIds |->
                      IF callers[c] \in {"init", "shared"} THEN "resolved" ELSE callers[c]]
    /\ UNCHANGED <<useBinaryProtocol, responseBuffer, pendingResponses, req, nreq,
                   writes, attempts, wire, sent, served, frames, delivered, clean>>
    /\ UNCHANGED <<poolVars, clusterVars, pipeVars, callVars, obsVars>>

\* The value of this.connected after the handler of a socket event.
ConnectedAfter(ev, was) == IF ev \in {"error", "close"} THEN FALSE ELSE was

SocketError ==
    /\ sock \in {"connecting", "open"}
    /\ sock' = "destroyed"
    /\ connected' = ConnectedAfter("error", connected)
    /\ connecting' = FALSE
    /\ callers' = [c \in CallerIds |->
                      IF callers[c] \in {"init", "shared"} THEN "rejected" ELSE callers[c]]
    /\ req' = RejectAll(req, pendingResponses, "socket error")
    /\ pendingResponses' = <<>>
    /\ clean' = FALSE
    /\ UNCHANGED <<useBinaryProtocol, responseBuffer, nreq, writes, attempts, wire,
                   sent, served, frames, delivered>>
    /\ UNCHANGED <<poolVars, clusterVars, pipeVars, callVars, obsVars>>

SocketClose ==
    /\ sock \in {"open", "destroyed"}
    /\ sock' = "closed"
    /\ connected' = ConnectedAfter("close", connected)
    /\ connecting' = FALSE
    /\ req' = RejectAll(req, pendingResponses, "Connection closed")
    /\ pendingResponses' = <<>>
    /\ writes' = <<>>
    /\ wire' = <<>>
    /\ served' = Len(sent)
    /\ clean' = FALSE
    /\ UNCHANGED <<useBinaryProtocol, responseBuffer, nreq, callers, attempts, sent,
                   frames, delivered>>
    /\ UNCHANGED <<poolVars, clusterVars, pipeVars, callVars, obsVars>>

\* The socket's idle 'timeout' event.
SocketTimeoutEvent ==
    /\ sock \in {"connecting", "open"}
    /\ sock' = "destroyed"
    /\ connected' = ConnectedAfter("timeout", connected)
    /\ callers' = [c \in CallerIds |->
                      IF callers[c] = "shared" THEN "rejected" ELSE callers[c]]
    /\ req' = RejectAll(req, pendingResponses, "Connection timeout")
    /\ pendingResponses' = <<>>
    /\ clean' = FALSE
    /\ UNCHANGED <<useBinaryProtocol, connecting, responseBuffer, nreq, writes,
                   attempts, wire, sent, served, frames, delivered>>
    /\ UNCHANGED <<poolVars, clusterVars, pipeVars, callVars, obsVars>>

\* destroy()
Destroy ==
    /\ sock \in {"connecting", "open"}
    /\ sock' = "destroyed"
    /\ req' = RejectAll(req, pendingResponses, "Connection destroyed")
    /\ pendingResponses' = <<>>
    /\ clean' = FALSE
    /\ UNCHANGED <<useBinaryProtocol, connected, connecting, responseBuffer, nreq,
                   writes, callers, attempts, wire, sent, served, frames, delivered>>
    /\ UNCHANGED <<poolVars, clusterVars, pipeVars, callVars, obsVars>>

(***************************************************************************)
(* sendCommand, sendPipelineCommands and the write callbacks.              *)
(***************************************************************************)
NewReq(k) == [st |-> "pending", timer |-> TRUE, val |-> <<>>, err |-> "", kind |-> k]

\* sendCommand on a connected connection: one record, one write.
SendCommand ==
    /\ connected
    /\ nreq < MaxReq
    /\ LET id == nreq + 1 IN
       /\ req' = [req EXCEPT ![id] = NewReq("cmd")]
       /\ pendingResponses' = Append(pendingResponses, id)
       /\ writes' = Append(writes, [reqs |-> <<id>>, kind |-> "cmd"])
       /\ nreq' = id
    /\ UNCHANGED <<useBinaryProtocol, sock, connected, connecting, responseBuffer,
                   callers, attempts, wire, sent, served, frames, delivered, clean>>
    /\ UNCHANGED <<poolVars, clusterVars, pipeVars, callVars, obsVars>>

\* sendPipelineCommands of n commands: n records in call order, one write.
SendPipeline(n) ==
    /\ connected
    /\ n >= 1
    /\ nreq + n <= MaxReq
    /\ LET ids == [k \in 1..n |-> nreq + k] IN
       /\ req' = [i \in ReqIds |-> IF i \in Range(ids) THEN NewReq("pipe") ELSE req[i]]
       /\ pendingResponses' = pendingResponses \o ids
       /\ writes' = Append(writes, [reqs |-> ids, kind |-> "pipe"])
       /\ nreq' = nreq + n
    /\ UNCHANGED <<useBinaryProtocol, sock, connected, connecting, responseBuffer,
                   callers, attempts, wire, sent, served, frames, delivered, clean>>
    /\ UNCHANGED <<poolVars, clusterVars, pipeVars, callVars, obsVars>>

\* The write callback runs without an error: the bytes reached the peer.
WriteOk ==
    /\ sock = "open"
    /\ writes # <<>>
    /\ sent' = sent \o Head(writes).reqs
    /\ writes' = Tail(writes)
    /\ UNCHANGED <<useBinaryProtocol, sock, connected, connecting, responseBuffer,
                   pendingResponses, req, nreq, callers, attempts, wire, served,
                   frames, delivered, clean>>
    /\ UNCHANGED <<poolVars, clusterVars, pipeVars, callVars, obsVars>>

\* The records a failed write removes from the queue: sendCommand pops the
\* last record, sendPipelineCommands pops every record.
WritePopped(kind, pend) ==
    IF pend = <<>> THEN <<>>
    ELSE IF kind = "cmd" THEN <<pend[Len(pend)]>> ELSE pend

WriteFail ==
    /\ writes # <<>>
    /\ LET w == Head(writes)
           popped == WritePopped(w.kind, pendingResponses)
       IN  /\ req' = RejectAll(req, popped, "write error")
           /\ pendingResponses' = SubSeq(pendingResponses, 1,
                                         Len(pendingResponses) - Len(popped))
    /\ writes' = Tail(writes)
    /\ clean' = FALSE
    /\ UNCHANGED <<useBinaryProtocol, sock, connected, connecting, responseBuffer,
                   nreq, callers, attempts, wire, sent, served, frames, delivered>>
    /\ UNCHANGED <<poolVars, clusterVars, pipeVars, callVars, obsVars>>

(***************************************************************************)
(* The peer answers the requests it received, once each and in order; the  *)
(* socket delivers its bytes in chunks of any size.                        *)
(***************************************************************************)
ServerReply ==
    /\ sock = "open"
    /\ served < Len(sent)
    /\ LET f == Reply(useBinaryProtocol, served + 1) IN
          /\ wire' = wire \o OnWire(useBinaryProtocol, f)
          /\ frames' = Append(frames, f)
    /\ served' = served + 1
    /\ UNCHANGED <<useBinaryProtocol, sock, connected, connecting, responseBuffer,
                   pendingResponses, req, nreq, writes, callers, attempts, sent,
                   delivered, clean>>
    /\ UNCHANGED <<poolVars, clusterVars, pipeVars, callVars, obsVars>>

SocketData ==
    /\ sock = "open"
    /\ wire # <<>>
    /\ \E k \in 1..Len(wire) :
          LET h == handleData(useBinaryProtocol, responseBuffer,
                              SubSeq(wire, 1, k), pendingResponses)
          IN  /\ responseBuffer' = h.buf
              /\ pendingResponses' = h.pend
              /\ req' = ResolveMatched(req, h.out)
              /\ delivered' = delivered \o h.out
              /\ wire' = SubSeq(wire, k + 1, Len(wire))
    /\ UNCHANGED <<useBinaryProtocol, sock, connected, connecting, nreq, writes,
                   callers, attempts, sent, served, frames, clean>>
    /\ UNCHANGED <<poolVars, clusterVars, pipeVars, callVars, obsVars>>

(***************************************************************************)
(* The timer of one request expires: its promise is rejected; the record   *)
(* stays in the queue.                                                     *)
(***************************************************************************)
TimeoutError(k) == IF k = "cmd" THEN "Command timeout" ELSE "Pipeline command timeout"

\* A timer that fails the whole queue.
TimerRejectsQueue(rq, pend, i) == RejectAll(rq, pend, TimeoutError(rq[i].kind))

\* The timer callback: reject(new Error('Command timeout')) of that request only.
TimerRejects(rq, pend, i) == [rq EXCEPT ![i] = RejectRec(rq[i], TimeoutError(rq[i].kind))]

\* A timer that takes the record of its request out of the queue.
TimerQueueDrop(pend, i) == SelectSeq(pend, LAMBDA x : x # i)

\* The queue after the timer callback: the callback does not touch it.
TimerQueue(pend, i) == pend

CommandTimeout(i) ==
    /\ req[i].timer
    /\ req' = TimerRejects(req, pendingResponses, i)
    /\ pendingResponses' = TimerQueue(pendingResponses, i)
    /\ UNCHANGED <<useBinaryProtocol, sock, connected, connecting, responseBuffer,
                   nreq, writes, callers, attempts, wire, sent,
                   served, frames, delivered, clean>>
    /\ UNCHANGED <<poolVars, clusterVars, pipeVars, callVars, obsVars>>

NextConn ==
    \/ \E c \in CallerIds : Connect(c)
    \/ \E c \in CallerIds : ConnectTimeout(c)
    \/ SocketConnect
    \/ SocketError
    \/ SocketClose
    \/ SocketTimeoutEvent
    \/ Destroy
    \/ SendCommand
    \/ \E n \in 2..MaxReq : SendPipeline(n)
    \/ WriteOk
    \/ WriteFail
    \/ ServerReply
    \/ SocketData
    \/ \E i \in ReqIds : CommandTimeout(i)

(***************************************************************************)
(* ConnectionPool (src/src/pool.ts).                                       *)
(* A connection object is "none" (not created), "connecting" (inside       *)
(* createConnection, awaiting connect()), "up" (connected), "failed" (its  *)
(* 'error' handler ran: connected is false, 'close' is due), "destroyed"   *)
(* (the pool called destroy() on it: connected is still true, 'close' is   *)
(* due) or "down" (its 'close' handler ran).  Its owner is the acquire()   *)
(* call that is creating it; warm marks a creation of warmUp().  The       *)
(* pool-wide counter                                                       *)
(* metrics.healthCheckFailures grows without bound and guards nothing, so  *)
(* it is left out.  Health-check rounds do not overlap (the probe's        *)
(* commandTimeout, 10 s, is shorter than the 30 s interval).               *)
(***************************************************************************)
ConnIds == 1..MaxConn
AcqIds == 1..MaxAcq

HealthThreshold == 3   \* healthCheckFailures > 3 evicts

InitPool ==
    /\ pool = <<>>
    /\ conn = [c \in ConnIds |-> [st |-> "none", owner |-> 0, warm |-> FALSE]]
    /\ acq = [k \in AcqIds |-> [st |-> "idle", c |-> 0]]
    /\ metrics = [activeConnections |-> 0, idleConnections |-> 0, totalCreated |-> 0,
                  poolHits |-> 0, poolMisses |-> 0]
    /\ probe = [c \in ConnIds |-> FALSE]
    /\ consec = [c \in ConnIds |-> 0]
    /\ warm = [st |-> "idle", left |-> 0, goal |-> 0]

\* A test that takes every connection object for connected.
isConnectedAlways(c) == conn[c].st # "none"

\* connection.isConnected(): this.connected, which 'error' and 'close' clear.
isConnected(c) == conn[c].st \in {"up", "destroyed"}
PoolConns(p) == { p[i].c : i \in 1..Len(p) }
IndexOfConn(p, c) == CHOOSE i \in 1..Len(p) : p[i].c = c
RemoveAt(p, i) == SubSeq(p, 1, i - 1) \o SubSeq(p, i + 1, Len(p))
FreshConns == { c \in ConnIds : conn[c].st = "none" }
FreshConn == CHOOSE c \in FreshConns : \A d \in FreshConns : c <= d

\* updateMetrics() without the count of the records in use.
updateMetricsIdleOnly(m, p) ==
    [m EXCEPT !.idleConnections = Cardinality({ i \in 1..Len(p) : ~p[i].inUse })]

\* updateMetrics()
updateMetrics(m, p) ==
    [m EXCEPT !.activeConnections = Cardinality({ i \in 1..Len(p) : p[i].inUse }),
              !.idleConnections = Cardinality({ i \in 1..Len(p) : ~p[i].inUse })]

\* A search that forgets the inUse flag.
FindIdleAnyConnected(p) ==
    LET ok == { i \in 1..Len(p) : isConnected(p[i].c) }
    IN  IF ok = {} THEN 0 ELSE CHOOSE i \in ok : \A j \in ok : i <= j

\* this.connections.find(conn => !conn.inUse && conn.connection.isConnected()):
\* the index of the first such record, 0 when there is none.
FindIdle(p) ==
    LET ok == { i \in 1..Len(p) : ~p[i].inUse /\ isConnected(p[i].c) }
    IN  IF ok = {} THEN 0 ELSE CHOOSE i \in ok : \A j \in ok : i <= j

\* removeConnection(connection)
removeConnection(p, c) ==
    IF c \in PoolConns(p) THEN RemoveAt(p, IndexOfConn(p, c)) ELSE p

\* An eviction one failure too early (>= in place of >).
EvictsEarly(n) == n >= HealthThreshold

\* pooledConnection.healthCheckFailures > 3
Evicts(n) == n > HealthThreshold

\* The per-record part of a failure: healthCheckFailures++, and the record
\* is removed once the counter exceeds the threshold (handleConnectionError
\* and the catch block of performHealthCheck).

CountFailure(p, c) ==
    IF c \in PoolConns(p)
    THEN LET i == IndexOfConn(p, c)
             n == p[i].fails + 1
         IN  IF Evicts(n) THEN RemoveAt(p, i) ELSE [p EXCEPT ![i].fails = n]
    ELSE p

\* A release that leaves the record flagged in use.
releaseRecKeep(p, c) == p

\* release(connection) on the list of records
releaseRec(p, c) ==
    IF c \in PoolConns(p) THEN [p EXCEPT ![IndexOfConn(p, c)].inUse = FALSE] ELSE p

(***************************************************************************)
(* acquire()                                                               *)
(***************************************************************************)
\* The synchronous part of acquire(): a hit, the start of a creation, or
\* the start of the 10 ms polling loop.
AcquireCall(k) ==
    /\ acq[k].st = "idle"
    /\ \A j \in AcqIds : j < k => acq[j].st # "idle"      \* calls are interchangeable
    /\ LET i == FindIdle(pool) IN
       IF i # 0
       THEN /\ pool' = [pool EXCEPT ![i].inUse = TRUE]
            /\ metrics' = updateMetrics([metrics EXCEPT !.poolHits = @ + 1], pool')
            /\ acq' = [acq EXCEPT ![k] = [st |-> "holding", c |-> pool[i].c]]
            /\ UNCHANGED conn
       ELSE IF Len(pool) < PoolSize
       THEN /\ FreshConns # {}
            /\ conn' = [conn EXCEPT ![FreshConn] = [st |-> "connecting", owner |-> k, warm |-> FALSE]]
            /\ acq' = [acq EXCEPT ![k] = [st |-> "creating", c |-> FreshConn]]
            /\ UNCHANGED <<pool, metrics>>
       ELSE /\ acq' = [acq EXCEPT ![k] = [st |-> "waiting", c |-> 0]]
            /\ UNCHANGED <<pool, metrics, conn>>
    /\ UNCHANGED <<probe, consec, warm>>
    /\ UNCHANGED <<connVars, clusterVars, pipeVars, callVars, obsVars>>

\* checkForConnection() of a polling acquire() finds a connection.  The timer
\* that rejected the call did not stop the loop ("timedout").
Poll(k) ==
    /\ acq[k].st \in {"waiting", "timedout"}
    /\ LET i == FindIdle(pool) IN
       /\ i # 0
       /\ pool' = [pool EXCEPT ![i].inUse = TRUE]
       /\ metrics' = updateMetrics([metrics EXCEPT !.poolHits = @ + 1], pool')
       /\ acq' = [acq EXCEPT ![k] = IF acq[k].st = "waiting"
                                    THEN [st |-> "holding", c |-> pool[i].c]
                                    ELSE [st |-> "rejected", c |-> 0]]
    /\ UNCHANGED <<conn, probe, consec, warm>>
    /\ UNCHANGED <<connVars, clusterVars, pipeVars, callVars, obsVars>>

\* The connectionTimeout timer of a polling acquire() expires.
AcquireTimeout(k) ==
    /\ acq[k].st = "waiting"
    /\ acq' = [acq EXCEPT ![k].st = "timedout"]
    /\ UNCHANGED <<pool, conn, metrics, probe, consec, warm>>
    /\ UNCHANGED <<connVars, clusterVars, pipeVars, callVars, obsVars>>

\* release(connection) by the caller that holds it.
Release(k) ==
    /\ acq[k].st = "holding"
    /\ pool' = releaseRec(pool, acq[k].c)
    /\ metrics' = IF acq[k].c \in PoolConns(pool) THEN updateMetrics(metrics, pool')
                  ELSE metrics
    /\ acq' = [acq EXCEPT ![k] = [st |-> "released", c |-> 0]]
    /\ UNCHANGED <<conn, probe, consec, warm>>
    /\ UNCHANGED <<connVars, clusterVars, pipeVars, callVars, obsVars>>

(***************************************************************************)
(* createConnection(): the continuation after connect() settled.           *)
(***************************************************************************)
\* connect() resolved: the record is pushed in use; then the continuation of
\* the caller runs, before any other handler: acquire() counts a miss and
\* returns the connection, warmUp() releases it
\* (.then(connection => this.release(connection))).
CreateDone(c) ==
    /\ conn[c].st = "connecting"
    /\ LET k == conn[c].owner
           pushed == Append(pool, [c |-> c, inUse |-> TRUE, fails |-> 0])
           created == updateMetrics([metrics EXCEPT !.totalCreated = @ + 1], pushed)
       IN  IF conn[c].warm
           THEN /\ pool' = releaseRec(pushed, c)
                /\ metrics' = updateMetrics(created, pool')
                /\ warm' = IF warm.st = "running" /\ warm.left = 1
                           THEN [st |-> "done", left |-> 0, goal |-> 0]
                           ELSE [warm EXCEPT !.left = warm.left - 1]
                /\ UNCHANGED acq
           ELSE /\ pool' = pushed
                /\ metrics' = [created EXCEPT !.poolMisses = @ + 1]
                /\ acq' = [acq EXCEPT ![k].st = "holding"]
                /\ UNCHANGED warm
    /\ conn' = [conn EXCEPT ![c] = [st |-> "up", owner |-> 0, warm |-> FALSE]]
    /\ UNCHANGED <<probe, consec>>
    /\ UNCHANGED <<connVars, clusterVars, pipeVars, callVars, obsVars>>

\* connect() rejects: the acquire() or warmUp() call rejects, nothing is pooled.
CreateFail(c) ==
    /\ conn[c].st = "connecting"
    /\ conn' = [conn EXCEPT ![c] = [st |-> "down", owner |-> 0, warm |-> FALSE]]
    /\ LET k == conn[c].owner IN
       IF conn[c].warm
       THEN /\ warm' = [st |-> "failed", left |-> warm.left - 1, goal |-> 0]
            /\ UNCHANGED acq
       ELSE /\ acq' = [acq EXCEPT ![k] = [st |-> "rejected", c |-> 0]]
            /\ UNCHANGED warm
    /\ UNCHANGED <<pool, metrics, probe, consec>>
    /\ UNCHANGED <<connVars, clusterVars, pipeVars, callVars, obsVars>>

(***************************************************************************)
(* warmUp(minConnections)                                                  *)
(***************************************************************************)
connectionsToCreate(n, p) == Min(n, PoolSize) - Len(p)

WarmUp(n) ==
    /\ warm.st = "idle"
    /\ LET m == connectionsToCreate(n, pool) IN
       IF m <= 0
       THEN /\ warm' = [st |-> "done", left |-> 0, goal |-> 0]
            /\ UNCHANGED conn
       ELSE /\ Cardinality(FreshConns) >= m
            /\ LET new == { c \in FreshConns :
                              Cardinality({ d \in FreshConns : d < c }) < m }
               IN  conn' = [c \in ConnIds |-> IF c \in new
                                              THEN [st |-> "connecting", owner |-> 0, warm |-> TRUE]
                                              ELSE conn[c]]
            /\ warm' = [st |-> "running", left |-> m, goal |-> Min(n, PoolSize)]
    /\ UNCHANGED <<pool, acq, metrics, probe, consec>>
    /\ UNCHANGED <<connVars, clusterVars, pipeVars, callVars, obsVars>>

(***************************************************************************)
(* performHealthCheck(): the round probes every idle record; each probe    *)
(* settles on its own.                                                     *)
(***************************************************************************)
IdleConns(p) == { p[i].c : i \in { j \in 1..Len(p) : ~p[j].inUse } }

RECURSIVE CountFailures(_, _)
CountFailures(p, S) ==
    IF S = {} THEN p
    ELSE LET c == CHOOSE x \in S : TRUE IN CountFailures(CountFailure(p, c), S \ {c})

\* The records a round sends a PING on: the idle ones.
Probed(p) == { c \in IdleConns(p) : isConnected(c) }

PerformHealthCheck ==
    /\ \A c \in ConnIds : ~probe[c]
    /\ IdleConns(pool) # {}
    /\ LET dead == { c \in IdleConns(pool) : ~isConnected(c) } IN
       /\ pool' = CountFailures(pool, dead)
       /\ consec' = [c \in ConnIds |-> IF c \in dead /\ c \in PoolConns(pool')
                                         THEN consec[c] + 1 ELSE
                                         IF c \in dead THEN 0 ELSE consec[c]]
       /\ probe' = [c \in ConnIds |-> c \in Probed(pool)]
       /\ metrics' = updateMetrics(metrics, pool')
    /\ UNCHANGED <<conn, acq, warm>>
    /\ UNCHANGED <<connVars, clusterVars, pipeVars, callVars, obsVars>>

\* The probe of c is the last one of its round to settle: the round ends
\* with updateMetrics().
RoundEnds(c) == probe[c] /\ \A d \in ConnIds \ {c} : ~probe[d]

\* The PING of a probe is answered: the failure counter is reset.
ProbeOk(c) ==
    /\ probe[c]
    /\ conn[c].st = "up"
    /\ pool' = IF c \in PoolConns(pool)
               THEN [pool EXCEPT ![IndexOfConn(pool, c)].fails = 0] ELSE pool
    /\ consec' = [consec EXCEPT ![c] = 0]
    /\ probe' = [probe EXCEPT ![c] = FALSE]
    /\ metrics' = IF RoundEnds(c) THEN updateMetrics(metrics, pool') ELSE metrics
    /\ UNCHANGED <<conn, acq, warm>>
    /\ UNCHANGED <<connVars, clusterVars, pipeVars, callVars, obsVars>>

\* The probe's sendCommand times out: the catch block counts the failure and
\* past the threshold removes and destroys the connection.
ProbeFail(c) ==
    /\ probe[c]
    /\ conn[c].st = "up"
    /\ pool' = CountFailure(pool, c)
    /\ conn' = IF c \in PoolConns(pool) /\ c \notin PoolConns(pool')
               THEN [conn EXCEPT ![c].st = "destroyed"] ELSE conn
    /\ consec' = [consec EXCEPT ![c] = IF c \in PoolConns(pool') THEN @ + 1 ELSE 0]
    /\ probe' = [probe EXCEPT ![c] = FALSE]
    /\ metrics' = IF c \notin PoolConns(pool') \/ RoundEnds(c)
                  THEN updateMetrics(metrics, pool') ELSE metrics
    /\ UNCHANGED <<acq, warm>>
    /\ UNCHANGED <<connVars, clusterVars, pipeVars, callVars, obsVars>>

(***************************************************************************)
(* The socket of a connection fails: the 'error' handler of the connection *)
(* clears connected and rejects its queue, handleConnectionError counts a  *)
(* failure, and the catch block of an outstanding probe counts another.    *)
(***************************************************************************)
ConnError(c) ==
    /\ conn[c].st = "up"
    /\ conn' = [conn EXCEPT ![c].st = "failed"]
    /\ pool' = IF probe[c] THEN CountFailure(CountFailure(pool, c), c)
               ELSE CountFailure(pool, c)
    /\ consec' = [consec EXCEPT ![c] = IF c \notin PoolConns(pool') THEN 0
                                       ELSE IF probe[c] THEN @ + 1 ELSE @]
    /\ probe' = [probe EXCEPT ![c] = FALSE]
    /\ metrics' = IF (c \in PoolConns(pool) /\ c \notin PoolConns(pool')) \/ RoundEnds(c)
                  THEN updateMetrics(metrics, pool') ELSE metrics
    /\ UNCHANGED <<acq, warm>>
    /\ UNCHANGED <<connVars, clusterVars, pipeVars, callVars, obsVars>>

\* The 'close' event of a connection, on its own (the peer closed) or after
\* an 'error' or a destroy(): removeConnection runs; an outstanding probe is
\* rejected and its catch block finds the record already removed.
ConnClose(c) ==
    /\ conn[c].st \in {"up", "failed", "destroyed"}
    /\ conn' = [conn EXCEPT ![c].st = "down"]
    /\ pool' = removeConnection(pool, c)
    /\ consec' = [consec EXCEPT ![c] = 0]
    /\ probe' = [probe EXCEPT ![c] = FALSE]
    /\ metrics' = IF c \in PoolConns(pool) \/ RoundEnds(c)
                  THEN updateMetrics(metrics, pool') ELSE metrics
    /\ UNCHANGED <<acq, warm>>
    /\ UNCHANGED <<connVars, clusterVars, pipeVars, callVars, obsVars>>

\* close(): socket.end() on every connected connection, whose 'close' events
\* are the ConnClose steps; once every disconnect() has settled, that is once
\* no pooled connection is connected, this.connections = [] and
\* updateMetrics().
PoolClose ==
    /\ pool # <<>>
    /\ \A i \in 1..Len(pool) : ~isConnected(pool[i].c)
    /\ pool' = <<>>
    /\ metrics' = updateMetrics(metrics, pool')
    /\ UNCHANGED <<conn, acq, probe, consec, warm>>
    /\ UNCHANGED <<connVars, clusterVars, pipeVars, callVars, obsVars>>

NextPool ==
    \/ \E k \in AcqIds : AcquireCall(k)
    \/ \E k \in AcqIds : Poll(k)
    \/ \E k \in AcqIds : AcquireTimeout(k)
    \/ \E k \in AcqIds : Release(k)
    \/ \E c \in ConnIds : CreateDone(c)
    \/ \E c \in ConnIds : CreateFail(c)
    \/ \E n \in 1..(PoolSize + 1) : WarmUp(n)
    \/ PerformHealthCheck
    \/ \E c \in ConnIds : ProbeOk(c)
    \/ \E c \in ConnIds : ProbeFail(c)
    \/ \E c \in ConnIds : ConnError(c)
    \/ \E c \in ConnIds : ConnClose(c)

\* A caller that makes its acquire() calls one after another: a call is
\* made once no earlier call is pending.
SeqAcquire(k) ==
    /\ \A j \in AcqIds : acq[j].st \notin {"creating", "waiting"}
    /\ AcquireCall(k)

NextPoolSeq ==
    \/ \E k \in AcqIds : SeqAcquire(k)
    \/ \E k \in AcqIds : Poll(k)
    \/ \E k \in AcqIds : AcquireTimeout(k)
    \/ \E k \in AcqIds : Release(k)
    \/ \E c \in ConnIds : CreateDone(c)
    \/ \E c \in ConnIds : CreateFail(c)
    \/ PerformHealthCheck
    \/ \E c \in ConnIds : ProbeOk(c)
    \/ \E c \in ConnIds : ProbeFail(c)
    \/ \E c \in ConnIds : ConnError(c)
    \/ \E c \in ConnIds : ConnClose(c)

(***************************************************************************)
(* CrabCacheClient (lib client, src/unnamed/part_004).                     *)
(* Nodes are numbered in the order of config.nodes, which is the iteration *)
(* order of the clusterNodes map.  nodeMetrics[n].requestCount is set to 0 *)
(* by initializeCluster and never written again; errorCount and the        *)
(* latency average grow without bound and guard nothing and are left out.  *)
(***************************************************************************)
Nodes == 1..NumNodes
Strategies == {"round_robin", "weighted", "resource_based", "adaptive"}

\* node.weight || 1, as configured: the last node weighs 2 (README example).
Weight(n) == IF n = NumNodes THEN 2 ELSE 1
RequestCount(n) == 0

NoSelection == [res |-> "none", node |-> 0]
NoOp == [st |-> "none", pool |-> "none", node |-> 0]

InitCluster ==
    /\ enableCluster \in BOOLEAN
    /\ strategy \in Strategies
    /\ active = [n \in Nodes |-> TRUE]
    /\ status = [n \in Nodes |-> "unknown"]
    /\ nodeUp = [n \in Nodes |-> TRUE]
    /\ hc = [n \in Nodes |-> FALSE]
    /\ leaked = [n \in Nodes |-> 0]
    /\ currentNodeIndex = 0
    /\ failoverEvents = 0
    /\ selected = NoSelection
    /\ op = NoOp

\* The server of a node stops or starts answering.
NodeToggle(n) ==
    /\ enableCluster
    /\ nodeUp' = [nodeUp EXCEPT ![n] = ~nodeUp[n]]
    /\ UNCHANGED <<enableCluster, strategy, active, status, hc, leaked,
                   currentNodeIndex, failoverEvents, selected, op>>
    /\ UNCHANGED <<connVars, poolVars, pipeVars, callVars, obsVars>>

(***************************************************************************)
(* performHealthChecks(): one check per node, each settling on its own.    *)
(***************************************************************************)
PerformHealthChecks ==
    /\ enableCluster
    /\ \A n \in Nodes : ~hc[n]
    /\ hc' = [n \in Nodes |-> TRUE]
    /\ UNCHANGED <<enableCluster, strategy, active, status, nodeUp, leaked,
                   currentNodeIndex, failoverEvents, selected, op>>
    /\ UNCHANGED <<connVars, poolVars, pipeVars, callVars, obsVars>>

\* The node's pool can still hand a connection to the health check.
PoolAvailable(n) == leaked[n] < PoolSize

\* node.active after the try block of a health check completed (PING answered):
\* if (!node.active) node.active = true
ActiveAfterSuccess(was) == IF ~was THEN TRUE ELSE was

\* A catch block that leaves the flag alone.
ActiveAfterFailureKeep(was) == was

\* node.active after the catch block of a health check:
\* if (node.active) node.active = false
ActiveAfterFailure(was) == IF was THEN FALSE ELSE was

\* A catch block that reports every failed check.
EventsAfterFailureAlways(n, was) == <<[type |-> "nodeFailure", node |-> n]>>

\* The events of the catch block: if (node.active) { ...; emit('nodeFailure') }
EventsAfterFailure(n, was) ==
    IF was THEN <<[type |-> "nodeFailure", node |-> n]>> ELSE <<>>

\* The events of the try block: if (!node.active) { ...; emit('nodeRecovered') }
EventsAfterSuccess(n, was) ==
    IF ~was THEN <<[type |-> "nodeRecovered", node |-> n]>> ELSE <<>>

\* acquire, PING, release: the try block runs to its end.
HealthCheckOk(n) ==
    /\ hc[n]
    /\ nodeUp[n]
    /\ PoolAvailable(n)
    /\ hc' = [hc EXCEPT ![n] = FALSE]
    /\ status' = [status EXCEPT ![n] = "healthy"]
    /\ active' = [active EXCEPT ![n] = ActiveAfterSuccess(active[n])]
    /\ emitted' = IF listening THEN EventsAfterSuccess(n, active[n]) ELSE <<>>
    /\ UNCHANGED <<enableCluster, strategy, nodeUp, leaked, currentNodeIndex,
                   failoverEvents, selected, op>>
    /\ UNCHANGED <<connVars, poolVars, pipeVars, callVars, listening, clientMetrics>>

\* The health check throws: in acquire() (no connection can be created, or the pool
\* is exhausted and the acquisition times out), or in sendCommand() after the
\* acquire ("timeout": the connection stays in the pool, in use; "error": the
\* socket failed and the pool dropped the connection).
HealthCheckFail(n, stage) ==
    /\ hc[n]
    /\ ~nodeUp[n] \/ ~PoolAvailable(n)
    /\ stage \in {"timeout", "error"} => PoolAvailable(n)
    /\ active[n] => failoverEvents < MaxFailovers
    /\ hc' = [hc EXCEPT ![n] = FALSE]
    /\ status' = [status EXCEPT ![n] = "unhealthy"]
    /\ leaked' = [leaked EXCEPT ![n] = IF stage = "timeout" THEN @ + 1 ELSE @]
    /\ active' = [active EXCEPT ![n] = ActiveAfterFailure(active[n])]
    /\ emitted' = IF listening THEN EventsAfterFailure(n, active[n]) ELSE <<>>
    /\ failoverEvents' = IF active[n] THEN failoverEvents + 1 ELSE failoverEvents
    /\ UNCHANGED <<enableCluster, strategy, nodeUp, currentNodeIndex, selected, op>>
    /\ UNCHANGED <<connVars, poolVars, pipeVars, callVars, listening, clientMetrics>>

(***************************************************************************)
(* selectNode() and the four policies.                                     *)
(***************************************************************************)
\* Array.from(this.clusterNodes.values()).filter(node => node.active)
RECURSIVE FilterActive(_, _)
FilterActive(act, n) ==
    IF n > NumNodes THEN <<>>
    ELSE (IF act[n] THEN <<n>> ELSE <<>>) \o FilterActive(act, n + 1)

\* A list of all the nodes, whatever their flag.
ActiveNodesAll(act) == FilterActive([n \in Nodes |-> TRUE], 1)

ActiveNodes(act) == FilterActive(act, 1)

\* A selection that ignores the index.
selectRoundRobinFirst(nodes, idx) == nodes[1]

\* selectRoundRobin(nodes) with this.currentNodeIndex = idx
selectRoundRobin(nodes, idx) == nodes[(idx % Len(nodes)) + 1]

\* selectWeighted with Math.random() * totalWeight = r2 / 2
RECURSIVE SumWeights(_)
SumWeights(nodes) ==
    IF nodes = <<>> THEN 0 ELSE Weight(Head(nodes)) + SumWeights(Tail(nodes))

RECURSIVE WeightedLoop(_, _, _)
WeightedLoop(nodes, i, r2) ==
    IF i > Len(nodes) THEN nodes[1]
    ELSE IF r2 - 2 * Weight(nodes[i]) <= 0 THEN nodes[i]
    ELSE WeightedLoop(nodes, i + 1, r2 - 2 * Weight(nodes[i]))

selectWeighted(nodes, r2) == WeightedLoop(nodes, 1, r2)

\* nodes.reduce((best, current) => ...) of selectResourceBased
RECURSIVE ResourceReduce(_, _, _)
ResourceReduce(nodes, i, best) ==
    IF i > Len(nodes) THEN best
    ELSE ResourceReduce(nodes, i + 1,
            IF RequestCount(nodes[i]) < RequestCount(best) THEN nodes[i] ELSE best)

selectResourceBased(nodes) == ResourceReduce(nodes, 2, nodes[1])

\* selectAdaptive: currentScore > bestScore, the scores being
\* weight / (requestCount + 1), compared by cross-multiplication.
RECURSIVE AdaptiveReduce(_, _, _)
AdaptiveReduce(nodes, i, best) ==
    IF i > Len(nodes) THEN best
    ELSE AdaptiveReduce(nodes, i + 1,
            IF Weight(nodes[i]) * (RequestCount(best) + 1)
                 > Weight(best) * (RequestCount(nodes[i]) + 1)
            THEN nodes[i] ELSE best)

selectAdaptive(nodes) == AdaptiveReduce(nodes, 2, nodes[1])

SelectNode ==
    /\ strategy = "round_robin" /\ enableCluster => currentNodeIndex < MaxSelect
    /\ IF ~enableCluster
       THEN /\ selected' = [res |-> "null", node |-> 0]
            /\ UNCHANGED currentNodeIndex
       ELSE LET activeNodes == ActiveNodes(active) IN
            IF Len(activeNodes) = 0
            THEN /\ selected' = [res |-> "throw", node |-> 0]
                 /\ UNCHANGED currentNodeIndex
            ELSE IF strategy = "round_robin"
            THEN /\ selected' = [res |-> "node",
                                 node |-> selectRoundRobin(activeNodes, currentNodeIndex)]
                 /\ currentNodeIndex' = currentNodeIndex + 1
            ELSE IF strategy = "weighted"
            THEN /\ \E r2 \in 0..(2 * SumWeights(activeNodes) - 1) :
                       selected' = [res |-> "node", node |-> selectWeighted(activeNodes, r2)]
                 /\ UNCHANGED currentNodeIndex
            ELSE IF strategy = "resource_based"
            THEN /\ selected' = [res |-> "node", node |-> selectResourceBased(activeNodes)]
                 /\ UNCHANGED currentNodeIndex
            ELSE /\ selected' = [res |-> "node", node |-> selectAdaptive(activeNodes)]
                 /\ UNCHANGED currentNodeIndex
    /\ UNCHANGED <<enableCluster, strategy, active, status, nodeUp, hc, leaked,
                   failoverEvents, op>>
    /\ UNCHANGED <<connVars, poolVars, pipeVars, callVars, obsVars>>

(***************************************************************************)
(* executeCommand(command, args): the connection comes from this.pool,     *)
(* which the constructor sets in single-node mode only.                    *)
(***************************************************************************)
ThisPool(cluster) == IF cluster THEN "undefined" ELSE "single"

ExecuteCommand ==
    /\ LET p == ThisPool(enableCluster)
       IN  IF p = "undefined"
           THEN \* pool.acquire() on undefined throws a TypeError
                op' = [st |-> "rejected", pool |-> p, node |-> 0]
           ELSE \E ok \in BOOLEAN :
                op' = [st |-> IF ok THEN "resolved" ELSE "rejected", pool |-> p,
                       node |-> 0]
    /\ UNCHANGED <<enableCluster, strategy, active, status, nodeUp, hc, leaked,
                   currentNodeIndex, failoverEvents, selected>>
    /\ UNCHANGED <<connVars, poolVars, pipeVars, callVars, obsVars>>

NextCluster ==
    \/ \E n \in Nodes : NodeToggle(n)
    \/ PerformHealthChecks
    \/ \E n \in Nodes : HealthCheckOk(n)
    \/ \E n \in Nodes, stage \in {"acquire", "timeout", "error"} : HealthCheckFail(n, stage)
    \/ SelectNode
    \/ ExecuteCommand

(***************************************************************************)
(* CrabCachePipeline (lib pipeline, src/unnamed/part_005).  One pipeline   *)
(* object over the connection above, handed over directly or through a     *)
(* pool-like object; the pool is the environment here: its acquire()       *)
(* resolves with the connection or rejects.  The pipeline is built once:   *)
(* commands are queued, then one execute() or executeBatched() call runs.  *)
(***************************************************************************)
MaxCmds == 2        \* commands queued on the pipeline
MaxBatch == 2       \* batchSize of executeBatched

\* The commands queued: ping(), get('k') and expire('k', NaN).
PipelineCommands ==
    { [command |-> S_PING, args |-> <<>>],
      [command |-> S_GET, args |-> << <<107>> >>],
      [command |-> S_EXPIRE, args |-> << <<107>>, <<78, 97, 78>> >>] }

\* What the peer may answer to a command: the payload of a text reply or a
\* complete binary reply.
PipeTextPayloads == { S_OK, <<>>, <<RESP_OK>> }
PipeBinaryFrames == { <<RESP_OK>>, <<RESP_NULL>>, <<RESP_VALUE, 1, 0, 0, 0, 118>> }
PipeReplies(binary) == IF binary THEN PipeBinaryFrames ELSE PipeTextPayloads

\* convertToResponse(decoded): a PipelineResponse.
Item(ok, t, d, e) == [success |-> ok, type |-> t, data |-> d, error |-> e]

convertToResponse(decoded) ==
    IF decoded.type = "ok" THEN Item(TRUE, "OK", <<>>, "")
    ELSE IF decoded.type = "pong" THEN Item(TRUE, "PONG", <<>>, "")
    ELSE IF decoded.type = "null" THEN Item(TRUE, "null", <<>>, "")
    ELSE IF decoded.type = "value" THEN Item(TRUE, "value", decoded.data, "")
    ELSE IF decoded.type = "stats" THEN Item(TRUE, "stats", decoded.data, "")
    ELSE IF decoded.type = "error" THEN Item(FALSE, "", decoded.data, "message")
    ELSE Item(FALSE, "", <<>>, "Unknown response type")

\* One turn of the decode loop: the item pushed for one raw response.
DecodeItem(binary, response) ==
    LET decoded == decodeResponse(binary, response) IN
    IF decoded.threw THEN Item(FALSE, "", <<>>, decoded.error)
    ELSE convertToResponse(decoded)

\* A decode loop without the inner try: the first throw leaves the loop.
DecodeLoopAbort(binary, responses) ==
    IF \E i \in 1..Len(responses) : decodeResponse(binary, responses[i]).threw
    THEN [threw |-> TRUE, results |-> <<>>]
    ELSE [threw |-> FALSE,
          results |-> [i \in 1..Len(responses) |-> DecodeItem(binary, responses[i])]]

\* The decode loop of execute(): every response gives one item, in order.
DecodeLoop(binary, responses) ==
    [threw |-> FALSE,
     results |-> [i \in 1..Len(responses) |-> DecodeItem(binary, responses[i])]]

\* Encoded commands taken in reverse.
EncodeAllReversed(binary, cmds) ==
    LET enc == [i \in 1..Len(cmds) |-> encodeCommand(binary, cmds[Len(cmds) + 1 - i])] IN
    IF \E i \in 1..Len(cmds) : enc[i].threw
    THEN [threw |-> TRUE, blobs |-> <<>>]
    ELSE [threw |-> FALSE, blobs |-> [i \in 1..Len(cmds) |-> enc[i].bytes]]

\* this.commands.map(cmd => encode(cmd)): the blobs in queue order, or the throw.
EncodeAll(binary, cmds) ==
    LET enc == [i \in 1..Len(cmds) |-> encodeCommand(binary, cmds[i])] IN
    IF \E i \in 1..Len(cmds) : enc[i].threw
    THEN [threw |-> TRUE, blobs |-> <<>>]
    ELSE [threw |-> FALSE, blobs |-> [i \in 1..Len(cmds) |-> enc[i].bytes]]

\* Buffer.concat(commands)
RECURSIVE ConcatAll(_)
ConcatAll(blobs) ==
    IF blobs = <<>> THEN <<>> ELSE Head(blobs) \o ConcatAll(Tail(blobs))

\* A release that only the return path reaches.
FinallyReleaseOnReturn(path, shouldRelease) ==
    IF shouldRelease /\ path = "return" THEN 1 ELSE 0

\* The finally block: release calls made when the try block is left.
FinallyRelease(path, shouldRelease) == IF shouldRelease THEN 1 ELSE 0

NoExec == [st |-> "idle", own |-> "main", cmds |-> <<>>, ids |-> <<>>,
           data |-> <<>>, acquired |-> FALSE, released |-> 0, step |-> ""]
NoBatch == [st |-> "idle", copy |-> <<>>, i |-> 0, size |-> 0, chunk |-> <<>>,
            chunks |-> <<>>, ids |-> <<>>, all |-> <<>>]

InitPipe ==
    /\ pipeBinary \in BOOLEAN
    /\ overPool \in BOOLEAN
    /\ commands = <<>>
    /\ px = NoExec
    /\ results = <<>>
    /\ batch = NoBatch

Settled == {"resolved", "rejected"}

\* this.commands of the pipeline object whose execute() px is.
OwnList == IF px.own = "main" THEN commands ELSE batch.chunk

\* this.clear() of that pipeline object.
ClearedCommands(own, cs) == IF own = "main" THEN <<>> ELSE cs
ClearedBatch(own, bt) == IF own = "temp" THEN [bt EXCEPT !.chunk = <<>>] ELSE bt

\* The outcome of await sendPipelineCommands(...): the promise settles in the
\* write callback, rejected when the write failed, else as Promise.all of the
\* N requests.
SendOutcome ==
    IF \E k \in 1..Len(writes) : writes[k].reqs = px.ids THEN "pending"
    ELSE IF ~(Range(px.ids) \subseteq Range(sent)) THEN "rejected"
    ELSE IF \E i \in Range(px.ids) : req[i].st = "rejected" THEN "rejected"
    ELSE IF \A i \in Range(px.ids) : req[i].st = "resolved" THEN "resolved"
    ELSE "pending"

\* A promise continuation of the pipeline is due: it runs before any other
\* handler.
Runnable ==
    \/ px.st = "sending" /\ SendOutcome # "pending"
    \/ batch.st = "running" /\ px.st \in Settled
Quiet == ~Runnable

\* The call made on the pipeline has settled; the model follows the
\* connection up to there.
Over == batch.st \in Settled \/ (batch.st = "idle" /\ px.st \in Settled)
Idle == Quiet /\ ~Over

\* No execute() or executeBatched() call was made on the pipeline yet.
Fresh == px.st = "idle" /\ batch.st = "idle"

\* ping(), get(key), expire(key, ttl): a command is queued.
PipeAdd(cmd) ==
    /\ Fresh
    /\ Len(commands) < MaxCmds
    /\ commands' = Append(commands, cmd)
    /\ UNCHANGED <<pipeBinary, overPool, px, results, batch>>
    /\ UNCHANGED <<connVars, poolVars, clusterVars, callVars, obsVars>>

\* The try block of execute() up to its await, on the connection in use: the
\* encoding, then sendPipelineCommands, which creates one request per command
\* and writes the concatenated commands once.  A throw runs the catch and the
\* finally block.  A connection that is not connected is connected first; of
\* that connect() only the failure is followed.
TryBlock(own, cmds, cs, bt, acquired) ==
    LET enc == EncodeAll(pipeBinary, cmds)
        n == Len(cmds)
        ids == [k \in 1..n |-> nreq + k]
        thrown(step) ==
            /\ px' = [st |-> "rejected", own |-> own, cmds |-> cmds, ids |-> <<>>,
                      data |-> <<>>, acquired |-> acquired,
                      released |-> FinallyRelease("throw", acquired), step |-> step]
            /\ commands' = ClearedCommands(own, cs)
            /\ batch' = ClearedBatch(own, bt)
            /\ UNCHANGED <<req, pendingResponses, writes, nreq>>
    IN  IF enc.threw THEN thrown("encode")
        ELSE IF ~connected THEN thrown("connect")
        ELSE /\ nreq + n <= MaxReq
             /\ req' = [i \in ReqIds |-> IF i \in Range(ids) THEN NewReq("pipe") ELSE req[i]]
             /\ pendingResponses' = pendingResponses \o ids
             /\ writes' = Append(writes, [reqs |-> ids, kind |-> "pipe"])
             /\ nreq' = nreq + n
             /\ px' = [st |-> "sending", own |-> own, cmds |-> cmds, ids |-> ids,
                       data |-> ConcatAll(enc.blobs), acquired |-> acquired,
                       released |-> 0, step |-> ""]
             /\ commands' = cs
             /\ batch' = bt

\* execute() of the pipeline object `own` up to its first await.
StartExecute(own, cmds, cs, bt) ==
    IF overPool
    THEN /\ px' = [NoExec EXCEPT !.st = "acquiring", !.own = own, !.cmds = cmds]
         /\ commands' = cs
         /\ batch' = bt
         /\ UNCHANGED <<req, pendingResponses, writes, nreq>>
    ELSE TryBlock(own, cmds, cs, bt, FALSE)

ConnRest == <<useBinaryProtocol, sock, connected, connecting, responseBuffer,
              callers, attempts, wire, sent, served, frames, delivered, clean>>

\* pipeline.execute()
PipeExecute ==
    /\ Fresh
    /\ results' = <<>>
    /\ IF commands = <<>>
       THEN /\ px' = [NoExec EXCEPT !.st = "resolved"]
            /\ UNCHANGED <<commands, batch, req, pendingResponses, writes, nreq>>
       ELSE StartExecute("main", commands, commands, NoBatch)
    /\ UNCHANGED <<pipeBinary, overPool>>
    /\ UNCHANGED ConnRest
    /\ UNCHANGED <<poolVars, clusterVars, callVars, obsVars>>

\* pool.acquire() resolves with the connection: the try block runs.
PoolGrants ==
    /\ px.st = "acquiring"
    /\ connected
    /\ TryBlock(px.own, px.cmds, commands, batch, TRUE)
    /\ UNCHANGED <<pipeBinary, overPool, results>>
    /\ UNCHANGED ConnRest
    /\ UNCHANGED <<poolVars, clusterVars, callVars, obsVars>>

\* pool.acquire() rejects: execute() rejects from outside its try block.
PoolRefuses ==
    /\ px.st = "acquiring"
    /\ px' = [px EXCEPT !.st = "rejected", !.step = "acquire"]
    /\ UNCHANGED <<pipeBinary, overPool, commands, results, batch>>
    /\ UNCHANGED <<connVars, poolVars, clusterVars, callVars, obsVars>>

\* The await of sendPipelineCommands is over: the decode loop, clear() and the
\* return, or the catch block; then the finally block.
PipeSettle ==
    /\ px.st = "sending"
    /\ SendOutcome # "pending"
    /\ LET responses == [i \in 1..Len(px.ids) |-> req[px.ids[i]].val]
           dec == DecodeLoop(pipeBinary, responses)
           path == IF SendOutcome = "resolved" /\ ~dec.threw THEN "return" ELSE "throw"
       IN  /\ px' = [px EXCEPT !.st = IF path = "return" THEN "resolved" ELSE "rejected",
                               !.released = FinallyRelease(path, px.acquired),
                               !.step = IF path = "return" THEN ""
                                        ELSE IF SendOutcome = "rejected" THEN "send"
                                        ELSE "decode"]
           /\ results' = IF path = "return" THEN dec.results ELSE <<>>
    /\ commands' = ClearedCommands(px.own, commands)
    /\ batch' = ClearedBatch(px.own, batch)
    /\ UNCHANGED <<pipeBinary, overPool>>
    /\ UNCHANGED <<connVars, poolVars, clusterVars, callVars, obsVars>>

\* A loop that steps over one command more than it ran.
NextIndexSkip(i, batchSize) == i + batchSize + 1

\* for (...; i += batchSize) and commandsCopy.slice(i, i + batchSize)
NextIndex(i, batchSize) == i + batchSize
Chunk(copy, i, batchSize) == BufferSlice(copy, i, i + batchSize)

\* One turn of the loop of executeBatched: a temporary pipeline over the
\* chunk at index i, and its execute() up to the first await.
RunChunk(bt, i) ==
    LET chunk == Chunk(bt.copy, i, bt.size)
        b == [bt EXCEPT !.i = i, !.chunk = chunk, !.chunks = Append(bt.chunks, chunk)]
    IN  StartExecute("temp", chunk, <<>>, b)

\* pipeline.executeBatched(batchSize)
PipeExecuteBatched(batchSize) ==
    /\ Fresh
    /\ results' = <<>>
    /\ IF commands = <<>>
       THEN /\ batch' = [NoBatch EXCEPT !.st = "resolved", !.size = batchSize]
            /\ px' = NoExec
            /\ UNCHANGED <<commands, req, pendingResponses, writes, nreq>>
       ELSE RunChunk([NoBatch EXCEPT !.st = "running", !.copy = commands,
                                     !.size = batchSize], 0)
    /\ UNCHANGED <<pipeBinary, overPool>>
    /\ UNCHANGED ConnRest
    /\ UNCHANGED <<poolVars, clusterVars, callVars, obsVars>>

\* The execute() of the chunk settled: its results are appended and the loop
\* goes on, or executeBatched rejects.
PipeNextBatch ==
    /\ batch.st = "running"
    /\ px.st \in Settled
    /\ IF px.st = "rejected"
       THEN /\ batch' = [batch EXCEPT !.st = "rejected"]
            /\ UNCHANGED <<commands, px, results, req, pendingResponses, writes, nreq>>
       ELSE LET b == [batch EXCEPT !.all = batch.all \o results,
                                   !.ids = batch.ids \o px.ids]
                i == NextIndex(batch.i, batch.size)
            IN  IF i < Len(batch.copy)
                THEN /\ RunChunk(b, i)
                     /\ results' = <<>>
                ELSE /\ batch' = [b EXCEPT !.st = "resolved"]
                     /\ UNCHANGED <<commands, px, results, req, pendingResponses,
                                    writes, nreq>>
    /\ UNCHANGED <<pipeBinary, overPool>>
    /\ UNCHANGED ConnRest
    /\ UNCHANGED <<poolVars, clusterVars, callVars, obsVars>>

\* The peer answers the next request it received with one of its replies.
PipeServerReply ==
    /\ Idle
    /\ sock = "open"
    /\ served < Len(sent)
    /\ \E f \in PipeReplies(useBinaryProtocol) :
          /\ wire' = wire \o OnWire(useBinaryProtocol, f)
          /\ frames' = Append(frames, f)
    /\ served' = served + 1
    /\ UNCHANGED <<useBinaryProtocol, sock, connected, connecting, responseBuffer,
                   pendingResponses, req, nreq, writes, callers, attempts, sent,
                   delivered, clean>>
    /\ UNCHANGED <<poolVars, clusterVars, pipeVars, callVars, obsVars>>

\* The handlers of the connection, run when no continuation is due.
PipeWriteOk == Idle /\ WriteOk
PipeWriteFail == Idle /\ WriteFail
PipeSocketData == Idle /\ SocketData
PipeCommandTimeout(i) == Idle /\ CommandTimeout(i)
PipeSocketError == Idle /\ SocketError
PipeSocketClose == Idle /\ SocketClose

NextPipe ==
    \/ \E cmd \in PipelineCommands : PipeAdd(cmd)
    \/ PipeExecute
    \/ \E b \in 1..MaxBatch : PipeExecuteBatched(b)
    \/ PoolGrants
    \/ PoolRefuses
    \/ PipeSettle
    \/ PipeNextBatch
    \/ PipeServerReply
    \/ PipeWriteOk
    \/ PipeWriteFail
    \/ PipeSocketData
    \/ \E i \in ReqIds : PipeCommandTimeout(i)
    \/ PipeSocketError
    \/ PipeSocketClose

(***************************************************************************)
(* Specifications.                                                         *)
(***************************************************************************)
(* CrabCacheClient: the constructor's maps.                                *)
(***************************************************************************)
NoMaps == [clusterNodes |-> {}, nodeConnections |-> {}, nodeMetrics |-> {}]

\* A forEach body that leaves out the metrics record of a node id it has
\* already seen.
SetNodeOnce(m, nodeId) ==
    [clusterNodes |-> m.clusterNodes \cup {nodeId},
     nodeConnections |-> m.nodeConnections \cup {nodeId},
     nodeMetrics |-> IF nodeId \in m.clusterNodes THEN m.nodeMetrics \ {nodeId}
                     ELSE m.nodeMetrics \cup {nodeId}]

\* The body of the forEach of initializeCluster(): the three set() calls.
SetNode(m, nodeId) ==
    [clusterNodes |-> m.clusterNodes \cup {nodeId},
     nodeConnections |-> m.nodeConnections \cup {nodeId},
     nodeMetrics |-> m.nodeMetrics \cup {nodeId}]

\* initializeCluster(): config.nodes.forEach over the node ids (host:port).
RECURSIVE initializeCluster(_, _)
initializeCluster(nodes, m) ==
    IF nodes = <<>> THEN m
    ELSE initializeCluster(Tail(nodes), SetNode(m, Head(nodes)))

\* The constructor: cluster mode needs enableCluster and a non-empty node list.
Constructed(cluster, nodes) ==
    IF cluster /\ Len(nodes) > 0 THEN initializeCluster(nodes, NoMaps) ELSE NoMaps

\* config.nodes naming every node once, in order.
PlainConfig == [n \in 1..NumNodes |-> n]

NoConnect == [st |-> "idle", warm |-> [n \in Nodes |-> "none"], failed |-> {}]
NoRet == [threw |-> FALSE, type |-> "none", data |-> <<>>, error |-> ""]

InitMaps(nodes) ==
    LET m == Constructed(enableCluster, nodes) IN
    /\ clusterNodes = m.clusterNodes
    /\ nodeConnections = m.nodeConnections
    /\ nodeMetrics = m.nodeMetrics

\* clientMetrics after the constructor: every counter is 0.
NoRequests == [totalRequests |-> 0, successfulRequests |-> 0, failedRequests |-> 0]

\* No listener is registered on the client.
InitObs ==
    /\ listening = FALSE
    /\ emitted = <<>>
    /\ clientMetrics = NoRequests

InitCall ==
    /\ InitMaps(PlainConfig)
    /\ cc = NoConnect
    /\ arg = <<>>
    /\ ret = NoRet
    /\ InitObs

\* getClusterStats(): hit_ratio is counted in units of 1 / (2 * RatioUnit), so
\* that halving it NumNodes times is exact.
RatioUnit == 2 ^ NumNodes
StatsSamples ==
    [total_operations : {1, 2}, cache_hits : {0, 1},
     hit_ratio : {0, RatioUnit, 2 * RatioUnit}, uptime_seconds : {1, 2}]
NoAnswer == [total_operations |-> 0, cache_hits |-> 0, hit_ratio |-> 0,
             uptime_seconds |-> 0]
\* What a node does with the STATS command: it answers, or the step throws.
StatsAnswers ==
    { [answered |-> TRUE, stats |-> x] : x \in StatsSamples }
        \cup { [answered |-> FALSE, stats |-> NoAnswer] }

Max(a, b) == IF a > b THEN a ELSE b

\* The for loop: the answers of the active nodes, failed nodes skipped.
RECURSIVE CollectStats(_, _)
CollectStats(answers, nodes) ==
    IF nodes = <<>> THEN <<>>
    ELSE (IF answers[Head(nodes)].answered
          THEN <<answers[Head(nodes)].stats>> ELSE <<>>)
         \o CollectStats(answers, Tail(nodes))

\* nodeStats.reduce(..., {0, ...}): the callback applied from left to right.
RECURSIVE ReduceStats(_, _)
ReduceStats(acc, nodeStats) ==
    IF nodeStats = <<>> THEN acc
    ELSE LET stats == Head(nodeStats) IN
         ReduceStats([total_operations |-> acc.total_operations + stats.total_operations,
                      cache_hits |-> acc.cache_hits + stats.cache_hits,
                      hit_ratio |-> (acc.hit_ratio + stats.hit_ratio) \div 2,
                      uptime_seconds |-> Max(acc.uptime_seconds, stats.uptime_seconds)],
                     Tail(nodeStats))

getClusterStats(act, answers) ==
    ReduceStats(NoAnswer, CollectStats(answers, ActiveNodes(act)))

(***************************************************************************)
(* CrabCacheClient.connect() in cluster mode: one async callback per node  *)
(* pool, awaited with Promise.allSettled; and disconnect().  The call is   *)
(* made once.  A callback's settling and the continuations it wakes (of    *)
(* allSettled and of connect) are one step.                                *)
(***************************************************************************)
\* config.nodes: every node named, one of them possibly twice.
ConfigLists ==
    { nodes \in UNION { [1..k -> Nodes] : k \in NumNodes..(NumNodes + 1) } :
         Range(nodes) = Nodes }

AllSettled(w) == \A n \in Nodes : w[n] # "pending"

\* A connect() that fails as soon as one node failed to connect.
ConnectOutcomeStrict(w, act) ==
    IF \A n \in Nodes : w[n] # "failed" THEN "resolved" ELSE "rejected"

\* After allSettled: activeNodes.length === 0 throws 'Failed to connect to any
\* cluster nodes'; the outer catch emits 'error' and rethrows.
ConnectOutcome(w, act) ==
    IF Len(ActiveNodes(act)) = 0 THEN "rejected" ELSE "resolved"

\* The call after a step: settled once every callback has settled.
ConnectAfter(c, act) ==
    IF c.st = "running" /\ AllSettled(c.warm)
    THEN [c EXCEPT !.st = ConnectOutcome(c.warm, act)]
    ELSE c

\* connect(): the map() starts every node's callback, each up to its
\* await pool.warmUp(2).
ClientConnect ==
    /\ enableCluster
    /\ cc.st = "idle"
    /\ cc' = ConnectAfter([st |-> "running",
                           warm |-> [n \in Nodes |-> IF n \in nodeConnections
                                                     THEN "pending" ELSE "none"],
                           failed |-> {}], active)
    /\ UNCHANGED <<clusterNodes, nodeConnections, nodeMetrics, arg, ret>>
    /\ UNCHANGED <<connVars, poolVars, clusterVars, pipeVars, obsVars>>

\* The warm-up of node n completes: the node accepts the connections, or the
\* pool already holds them (a health check opened them) and warmUp() has
\* nothing to create.  negotiateProtocolForNode catches its own errors;
\* 'nodeConnected' is emitted.
NodeWarmOk(n) ==
    /\ cc.st = "running" /\ cc.warm[n] = "pending"
    /\ nodeUp[n] \/ status[n] = "healthy"
    /\ cc' = ConnectAfter([cc EXCEPT !.warm[n] = "ok"], active)
    /\ UNCHANGED <<clusterNodes, nodeConnections, nodeMetrics, arg, ret>>
    /\ UNCHANGED <<connVars, poolVars, clusterVars, pipeVars, obsVars>>

\* node.active after the catch block of a node's callback in connect().
ActiveAfterWarmFailure(was) == FALSE

\* The warm-up of node n throws: 'nodeConnectionFailed' is emitted and the
\* node is marked inactive.
NodeWarmFail(n) ==
    /\ cc.st = "running" /\ cc.warm[n] = "pending"
    /\ ~nodeUp[n]
    /\ active' = [active EXCEPT ![n] = IF n \in clusterNodes
                                       THEN ActiveAfterWarmFailure(@) ELSE @]
    /\ cc' = ConnectAfter([cc EXCEPT !.warm[n] = "failed",
                                     !.failed = @ \cup {n}], active')
    /\ UNCHANGED <<enableCluster, strategy, status, nodeUp, hc, leaked,
                   currentNodeIndex, failoverEvents, selected, op>>
    /\ UNCHANGED <<clusterNodes, nodeConnections, nodeMetrics, arg, ret>>
    /\ UNCHANGED <<connVars, poolVars, pipeVars, obsVars>>

\* A disconnect() that marks every node inactive.
FlagsAfterDisconnectCleared(act) == [n \in DOMAIN act |-> FALSE]

\* The flags after disconnect(): it closes the pools and leaves the nodes alone.
FlagsAfterDisconnect(act) == act

\* disconnect() once connect() has settled: the health-check interval is
\* cleared and every node pool is closed, its connections destroyed.
ClientDisconnect ==
    /\ enableCluster
    /\ cc.st \in {"resolved", "rejected"}
    /\ cc' = [cc EXCEPT !.st = "closed"]
    /\ active' = FlagsAfterDisconnect(active)
    /\ leaked' = [n \in Nodes |-> 0]
    /\ UNCHANGED <<enableCluster, strategy, status, nodeUp, hc,
                   currentNodeIndex, failoverEvents, selected, op>>
    /\ UNCHANGED <<clusterNodes, nodeConnections, nodeMetrics, arg, ret>>
    /\ UNCHANGED <<connVars, poolVars, pipeVars, obsVars>>

\* The interval timer of the health checks runs until disconnect() clears it.
HealthCheckTick == cc.st # "closed" /\ PerformHealthChecks

\* getClusterStats() with the answers the nodes give to STATS.
ClusterStats ==
    /\ enableCluster
    /\ cc.st = "resolved"
    /\ \E answers \in [Nodes -> {[answered |-> FALSE, stats |-> NoAnswer]}] :
          ret' = [threw |-> FALSE, type |-> "stats",
                  data |-> getClusterStats(active, answers), error |-> ""]
    /\ UNCHANGED <<clusterNodes, nodeConnections, nodeMetrics, cc, arg>>
    /\ UNCHANGED <<connVars, poolVars, clusterVars, pipeVars, obsVars>>

\* The client is used once connect() has resolved.
CoordSelect == cc.st = "resolved" /\ SelectNode
CoordExecute == cc.st = "resolved" /\ ExecuteCommand

NextCoord ==
    \/ \E n \in Nodes : NodeToggle(n)
    \/ HealthCheckTick
    \/ \E n \in Nodes : HealthCheckOk(n)
    \/ \E n \in Nodes, stage \in {"acquire", "error"} : HealthCheckFail(n, stage)
    \/ CoordSelect
    \/ CoordExecute
    \/ ClientConnect
    \/ \E n \in Nodes : NodeWarmOk(n)
    \/ \E n \in Nodes : NodeWarmFail(n)
    \/ ClusterStats
    \/ ClientDisconnect


(***************************************************************************)
\* A connection on its own: no pool and no client around it.
InitSpecConn ==
    /\ InitConn /\ InitPool /\ InitCluster /\ InitPipe /\ InitCall
    /\ ~pipeBinary /\ ~overPool
    /\ ~enableCluster /\ strategy = "round_robin"

SpecConn == InitSpecConn /\ [][NextConn]_vars

\* The same connection under the scheduling of the event loop: a timer that
\* is armed fires unless it is cleared, the callback of a queued write runs,
\* and a destroyed socket emits 'close'.  Nothing obliges the peer to accept
\* the connection or to answer, nor a caller to call again.
FairConn ==
    /\ \A i \in ReqIds : WF_vars(CommandTimeout(i))
    /\ \A c \in CallerIds : WF_vars(ConnectTimeout(c))
    /\ WF_vars(WriteOk \/ WriteFail)
    /\ WF_vars(SocketClose)

SpecConnFair == InitSpecConn /\ [][NextConn]_vars /\ FairConn

\* A pool whose connections are summarised by their socket state.
InitSpecPool ==
    /\ InitConn /\ InitPool /\ InitCluster /\ InitPipe /\ InitCall
    /\ ~pipeBinary /\ ~overPool
    /\ ~useBinaryProtocol /\ ~enableCluster /\ strategy = "round_robin"

SpecPool == InitSpecPool /\ [][NextPool]_vars

\* The pool with close() among its operations.
NextPoolClose ==
    \/ \E k \in AcqIds : AcquireCall(k)
    \/ \E k \in AcqIds : Poll(k)
    \/ \E k \in AcqIds : AcquireTimeout(k)
    \/ \E k \in AcqIds : Release(k)
    \/ \E c \in ConnIds : CreateDone(c)
    \/ \E c \in ConnIds : CreateFail(c)
    \/ \E n \in 1..(PoolSize + 1) : WarmUp(n)
    \/ PerformHealthCheck
    \/ \E c \in ConnIds : ProbeOk(c)
    \/ \E c \in ConnIds : ProbeFail(c)
    \/ \E c \in ConnIds : ConnError(c)
    \/ \E c \in ConnIds : ConnClose(c)
    \/ PoolClose

InitSpecPoolClose == InitSpecPool

SpecPoolClose == InitSpecPoolClose /\ [][NextPoolClose]_vars

\* The same pool used by one caller whose acquire() calls do not overlap.
InitSpecPoolSeq ==
    /\ InitConn /\ InitPool /\ InitCluster /\ InitPipe /\ InitCall
    /\ ~pipeBinary /\ ~overPool
    /\ ~useBinaryProtocol /\ ~enableCluster /\ strategy = "round_robin"

SpecPoolSeq == InitSpecPoolSeq /\ [][NextPoolSeq]_vars

\* A client over its nodes, each node's pool summarised by its availability.
InitSpecCluster ==
    /\ InitConn /\ InitPool /\ InitCluster /\ InitPipe /\ InitCall
    /\ ~pipeBinary /\ ~overPool
    /\ ~useBinaryProtocol

SpecCluster == InitSpecCluster /\ [][NextCluster]_vars

\* A client in cluster mode: constructor, connect(), health checks, selection,
\* cache operations, statistics, disconnect().
InitSpecCoord ==
    /\ InitConn /\ InitPool /\ InitCluster /\ InitPipe
    /\ ~pipeBinary /\ ~overPool
    /\ ~useBinaryProtocol
    /\ enableCluster /\ strategy = "adaptive"
    /\ \E nodes \in ConfigLists : InitMaps(nodes)
    /\ cc = NoConnect
    /\ arg = <<>>
    /\ ret = NoRet
    /\ InitObs

SpecCoord == InitSpecCoord /\ [][NextCoord]_vars

\* The health checks of a cluster-mode client with listeners registered, and
\* its connect(); a node may be configured with active: false.
InitSpecHealth ==
    /\ InitConn /\ InitPool /\ InitPipe
    /\ ~pipeBinary /\ ~overPool
    /\ ~useBinaryProtocol
    /\ enableCluster = TRUE
    /\ strategy = "round_robin"
    /\ active \in [Nodes -> BOOLEAN]
    /\ status = [n \in Nodes |-> "unknown"]
    /\ nodeUp = [n \in Nodes |-> TRUE]
    /\ hc = [n \in Nodes |-> FALSE]
    /\ leaked = [n \in Nodes |-> 0]
    /\ currentNodeIndex = 0
    /\ failoverEvents = 0
    /\ selected = NoSelection
    /\ op = NoOp
    /\ InitMaps(PlainConfig)
    /\ cc = NoConnect
    /\ arg = <<>>
    /\ ret = NoRet
    /\ listening = TRUE
    /\ emitted = <<>>
    /\ clientMetrics = NoRequests

NextHealth ==
    \/ \E n \in Nodes : NodeToggle(n)
    \/ PerformHealthChecks
    \/ \E n \in Nodes : HealthCheckOk(n)
    \/ \E n \in Nodes, stage \in {"acquire", "error"} : HealthCheckFail(n, stage)
    \/ ClientConnect
    \/ \E n \in Nodes : NodeWarmOk(n)
    \/ \E n \in Nodes : NodeWarmFail(n)

SpecHealth == InitSpecHealth /\ [][NextHealth]_vars

(***************************************************************************)
(* pipeline(), createBatch() and multi() of the client.                    *)
(***************************************************************************)
\* this.nodeConnections.values().next().value: a Map iterates in insertion
\* order, which is the order of config.nodes (node ids in order here).
FirstValue(keys) ==
    IF keys = {} THEN 0 ELSE CHOOSE n \in keys : \A m \in keys : n <= m

\* The pool a pipeline is constructed over: a node's, or this.pool (0).
PipelinePool == IF enableCluster THEN FirstValue(nodeConnections) ELSE 0

\* multi(commands), or execute() of a pipeline made by pipeline(): acquire()
\* on that pool, the commands sent over the connection, release().
ClientPipeline ==
    /\ LET n == PipelinePool IN
       \E ok \in BOOLEAN :
          /\ ok => (n = 0 \/ (nodeUp[n] /\ PoolAvailable(n)))
          /\ op' = [st |-> IF ok THEN "resolved" ELSE "rejected",
                    pool |-> IF enableCluster THEN "node" ELSE "single",
                    node |-> n]
    /\ UNCHANGED <<enableCluster, strategy, active, status, nodeUp, hc, leaked,
                   currentNodeIndex, failoverEvents, selected>>
    /\ UNCHANGED <<connVars, poolVars, pipeVars, callVars, obsVars>>

InitSpecMulti ==
    /\ InitConn /\ InitPool /\ InitCluster /\ InitPipe /\ InitCall
    /\ ~pipeBinary /\ ~overPool
    /\ ~useBinaryProtocol /\ enableCluster /\ strategy = "round_robin"

NextMulti ==
    \/ \E n \in Nodes : NodeToggle(n)
    \/ PerformHealthChecks
    \/ \E n \in Nodes : HealthCheckOk(n)
    \/ \E n \in Nodes, stage \in {"acquire", "error"} : HealthCheckFail(n, stage)
    \/ SelectNode
    \/ ClientPipeline

SpecMulti == InitSpecMulti /\ [][NextMulti]_vars

\* A pipeline over a connection that is open, handed over directly or through
\* a pool; the pipeline's protocol flag is its own constructor argument.
InitSpecPipe ==
    /\ InitPool /\ InitCluster /\ InitPipe /\ InitCall
    /\ ~enableCluster /\ strategy = "round_robin"
    /\ useBinaryProtocol \in BOOLEAN
    /\ sock = "open"
    /\ connected = TRUE
    /\ connecting = FALSE
    /\ responseBuffer = <<>>
    /\ pendingResponses = <<>>
    /\ req = [i \in ReqIds |-> NoReq]
    /\ nreq = 0
    /\ writes = <<>>
    /\ callers = [c \in CallerIds |-> IF c = 1 THEN "resolved" ELSE "idle"]
    /\ attempts = 1
    /\ wire = <<>>
    /\ sent = <<>>
    /\ served = 0
    /\ frames = <<>>
    /\ delivered = <<>>
    /\ clean = TRUE

SpecPipe == InitSpecPipe /\ [][NextPipe]_vars

(***************************************************************************)
(* The framing on its own: a connected connection with some requests       *)
(* outstanding, and a byte sequence made of complete replies that the      *)
(* socket delivers in chunks of any size.                                  *)
(***************************************************************************)
MaxFrames == 3      \* complete replies in the byte sequence

\* Payloads of text replies (the CRLF is added on the wire) and complete
\* binary replies: short and long ones, and payloads that contain a CR or a
\* LF of their own.
TextPayloads == { <<79, 75>>, <<CR>>, <<LF>>, <<>> }
BinaryFrames == { <<RESP_OK>>, <<RESP_VALUE, 1, 0, 0, 0, RESP_OK>>,
                  <<RESP_ERROR, 0, 0, 0, 0>>, <<RESP_VALUE, 2, 0, 0, 0, CR, LF>> }
SampleFrames(binary) == IF binary THEN BinaryFrames ELSE TextPayloads

FrameSeqs(binary) == UNION { [1..n -> SampleFrames(binary)] : n \in 1..MaxFrames }

\* The bytes of a sequence of replies as the peer writes them.
RECURSIVE WireOf(_, _)
WireOf(binary, fs) ==
    IF fs = <<>> THEN <<>> ELSE OnWire(binary, Head(fs)) \o WireOf(binary, Tail(fs))

InitSpecFrame ==
    /\ InitPool /\ InitCluster /\ InitPipe /\ InitCall
    /\ ~pipeBinary /\ ~overPool
    /\ ~enableCluster /\ strategy = "round_robin"
    /\ useBinaryProtocol \in BOOLEAN
    /\ sock = "open"
    /\ connected = TRUE
    /\ connecting = FALSE
    /\ responseBuffer = <<>>
    /\ nreq \in 0..MaxReq
    /\ pendingResponses = [i \in 1..nreq |-> i]
    /\ req = [i \in ReqIds |-> IF i <= nreq THEN NewReq("cmd") ELSE NoReq]
    /\ writes = <<>>
    /\ callers = [c \in CallerIds |-> IF c = 1 THEN "resolved" ELSE "idle"]
    /\ attempts = 1
    /\ frames \in FrameSeqs(useBinaryProtocol)
    /\ wire = WireOf(useBinaryProtocol, frames)
    /\ sent = pendingResponses
    /\ served = Len(frames)
    /\ delivered = <<>>
    /\ clean = TRUE

NextFrame == SocketData

SpecFrame == InitSpecFrame /\ [][NextFrame]_vars

\* A binary connection whose peer writes, among its replies, a byte that is
\* no response tag (a corrupted stream or a peer speaking another protocol).
ResponseTags == {RESP_OK, RESP_PONG, RESP_NULL, RESP_ERROR, RESP_VALUE, RESP_STATS}
BadTag == RESP_STATS + 1
StreamSeqs ==
    { fs \in UNION { [1..n -> BinaryFrames \cup {<<BadTag>>}] : n \in 1..MaxFrames } :
         \E k \in 1..Len(fs) : fs[k] = <<BadTag>> }

InitSpecStream ==
    /\ InitPool /\ InitCluster /\ InitPipe /\ InitCall
    /\ ~pipeBinary /\ ~overPool
    /\ ~enableCluster /\ strategy = "round_robin"
    /\ useBinaryProtocol = TRUE
    /\ sock = "open"
    /\ connected = TRUE
    /\ connecting = FALSE
    /\ responseBuffer = <<>>
    /\ nreq \in 1..MaxReq
    /\ pendingResponses = [i \in 1..nreq |-> i]
    /\ req = [i \in ReqIds |-> IF i <= nreq THEN NewReq("cmd") ELSE NoReq]
    /\ writes = <<>>
    /\ callers = [c \in CallerIds |-> IF c = 1 THEN "resolved" ELSE "idle"]
    /\ attempts = 1
    /\ frames \in StreamSeqs
    /\ wire = WireOf(TRUE, frames)
    /\ sent = pendingResponses
    /\ served = Len(frames)
    /\ delivered = <<>>
    /\ clean = TRUE

NextStream == SocketData

SpecStream == InitSpecStream /\ [][NextStream]_vars

\* A connected connection used by several callers at once: single commands
\* and pipelines of any length, their writes, replies and timers.
InitSpecWrite ==
    /\ InitPool /\ InitCluster /\ InitPipe /\ InitCall
    /\ ~pipeBinary /\ ~overPool
    /\ ~enableCluster /\ strategy = "round_robin"
    /\ useBinaryProtocol \in BOOLEAN
    /\ sock = "open"
    /\ connected = TRUE
    /\ connecting = FALSE
    /\ responseBuffer = <<>>
    /\ pendingResponses = <<>>
    /\ req = [i \in ReqIds |-> NoReq]
    /\ nreq = 0
    /\ writes = <<>>
    /\ callers = [c \in CallerIds |-> IF c = 1 THEN "resolved" ELSE "idle"]
    /\ attempts = 1
    /\ wire = <<>>
    /\ sent = <<>>
    /\ served = 0
    /\ frames = <<>>
    /\ delivered = <<>>
    /\ clean = TRUE

NextWrite ==
    \/ SendCommand
    \/ \E n \in 1..MaxReq : SendPipeline(n)
    \/ WriteOk
    \/ WriteFail
    \/ ServerReply
    \/ SocketData
    \/ \E i \in ReqIds : CommandTimeout(i)

SpecWrite == InitSpecWrite /\ [][NextWrite]_vars

(***************************************************************************)
(* ProtocolDecoder.decodeBinaryResponse applied to byte sequences.         *)
(***************************************************************************)
MaxBytes == 3       \* length of the decoder's input

\* Bytes around the tag range and bytes with and without the varint
\* continuation bit.
DecodeBytes == {0, 1, RESP_OK - 1} \cup ResponseTags \cup {BadTag, 128, 255}
DecodeInputs == UNION { [1..n -> DecodeBytes] : n \in 0..MaxBytes }

InitSpecDecode ==
    /\ InitConn /\ InitPool /\ InitCluster /\ InitPipe
    /\ ~pipeBinary /\ ~overPool
    /\ ~enableCluster /\ strategy = "round_robin"
    /\ ~useBinaryProtocol
    /\ InitMaps(PlainConfig)
    /\ cc = NoConnect
    /\ arg \in DecodeInputs
    /\ ret = NoRet
    /\ InitObs

DecodeBinary ==
    /\ ret = NoRet
    /\ ret' = decodeBinaryResponse(arg)
    /\ UNCHANGED <<clusterNodes, nodeConnections, nodeMetrics, cc, arg>>
    /\ UNCHANGED <<connVars, poolVars, clusterVars, pipeVars, obsVars>>

NextDecode == DecodeBinary

SpecDecode == InitSpecDecode /\ [][NextDecode]_vars

(***************************************************************************)
(* The binary framing of the connection followed by the binary decoder:    *)
(* arg is the response buffer, ret the decoded frame.                      *)
(***************************************************************************)
PayloadBytes == {0, RESP_OK, 255}
Payloads == UNION { [1..n -> PayloadBytes] : n \in 0..MaxBytes }

\* A reply as the server writes it: tag, length as U32LE, payload.
LengthPrefixed(t, payload) == <<t>> \o LEBytes(Len(payload), 4) \o payload

\* A complete ERROR, VALUE or STATS reply, alone or followed by the first
\* byte of the next reply.
FramedBuffers ==
    { LengthPrefixed(t, p) \o r :
        t \in {RESP_ERROR, RESP_VALUE, RESP_STATS}, p \in Payloads,
        r \in {<<>>, <<RESP_OK>>} }

InitSpecAgree ==
    /\ InitConn /\ InitPool /\ InitCluster /\ InitPipe
    /\ ~pipeBinary /\ ~overPool
    /\ ~enableCluster /\ strategy = "round_robin"
    /\ ~useBinaryProtocol
    /\ InitMaps(PlainConfig)
    /\ cc = NoConnect
    /\ arg \in FramedBuffers
    /\ ret = NoRet
    /\ InitObs

\* extractResponse() of a binary connection, then decodeBinaryResponse() of
\* the frame it returned.
ExtractAndDecode ==
    /\ ret = NoRet
    /\ LET f == extractBinaryResponse(arg) IN
          /\ f.found
          /\ ret' = decodeBinaryResponse(f.response)
    /\ UNCHANGED <<clusterNodes, nodeConnections, nodeMetrics, cc, arg>>
    /\ UNCHANGED <<connVars, poolVars, clusterVars, pipeVars, obsVars>>

NextAgree == ExtractAndDecode

SpecAgree == InitSpecAgree /\ [][NextAgree]_vars

(***************************************************************************)
(* CrabCacheClient.getClusterStats applied to the STATS answers of the     *)
(* active nodes.                                                           *)
(***************************************************************************)
InitSpecStats ==
    /\ InitConn /\ InitPool /\ InitPipe
    /\ ~pipeBinary /\ ~overPool
    /\ ~useBinaryProtocol
    /\ enableCluster = TRUE
    /\ strategy = "round_robin"
    /\ active \in [Nodes -> BOOLEAN]
    /\ status = [n \in Nodes |-> "unknown"]
    /\ nodeUp = [n \in Nodes |-> TRUE]
    /\ hc = [n \in Nodes |-> FALSE]
    /\ leaked = [n \in Nodes |-> 0]
    /\ currentNodeIndex = 0
    /\ failoverEvents = 0
    /\ selected = NoSelection
    /\ op = NoOp
    /\ InitMaps(PlainConfig)
    /\ cc = NoConnect
    /\ arg \in [Nodes -> StatsAnswers]
    /\ ret = NoRet
    /\ InitObs

GetClusterStats ==
    /\ ret = NoRet
    /\ ret' = [threw |-> FALSE, type |-> "stats",
               data |-> getClusterStats(active, arg), error |-> ""]
    /\ UNCHANGED <<clusterNodes, nodeConnections, nodeMetrics, cc, arg>>
    /\ UNCHANGED <<connVars, poolVars, clusterVars, pipeVars, obsVars>>

NextStats == GetClusterStats

SpecStats == InitSpecStats /\ [][NextStats]_vars

(***************************************************************************)
(* The client's request metrics.  arg is the list of the public operations *)
(* completed so far, ret the outcome of the last one.                      *)
(***************************************************************************)
PublicOps ==
    {"ping", "put", "get", "del", "expire", "stats", "serverMetrics", "multi"}
ResponseTypes == {"pong", "ok", "value", "null", "stats", "error"}

\* The response types a method returns on; on any other it throws.
Returns(o) ==
    CASE o = "ping" -> {"pong"}
      [] o = "put" -> {"ok"}
      [] o = "get" -> {"value", "null"}
      [] o \in {"del", "expire"} -> {"ok", "null"}
      [] o \in {"stats", "serverMetrics"} -> {"stats"}
      [] OTHER -> {}

\* What the awaited call of a method can do: executeCommand() resolves with
\* a response or rejects ("throw"), pipeline.execute() resolves ("ok") or
\* multi() throws, getClusterStats() resolves.
OutcomesOf(o) ==
    IF o = "multi" THEN {"ok", "throw"}
    ELSE IF o = "stats" /\ enableCluster THEN {"stats"}
    ELSE ResponseTypes \cup {"throw"}

\* updateMetrics(startTime, success) of the client
clientUpdateMetrics(m, success) ==
    [m EXCEPT !.totalRequests = @ + 1,
              !.successfulRequests = IF success THEN @ + 1 ELSE @,
              !.failedRequests = IF success THEN @ ELSE @ + 1]

\* ping(), put(), get(), del(), expire(), serverMetrics() and stats() of a
\* single server: updateMetrics(true) after the await, inside the try block
\* whose catch calls updateMetrics(false).
MetricsAfterCommand(m, o, r) ==
    IF r = "throw" THEN clientUpdateMetrics(m, FALSE)
    ELSE LET counted == clientUpdateMetrics(m, TRUE)
         IN  IF r \in Returns(o) THEN counted
             ELSE clientUpdateMetrics(counted, FALSE)

MetricsAfter(m, o, r) ==
    IF o = "multi" THEN clientUpdateMetrics(m, r # "throw")
    ELSE IF o = "stats" /\ enableCluster THEN m
    ELSE MetricsAfterCommand(m, o, r)

Throws(o, r) ==
    IF o = "multi" THEN r = "throw"
    ELSE IF o = "stats" /\ enableCluster THEN FALSE
    ELSE r \notin Returns(o)

PublicOp(o, r) ==
    /\ Len(arg) < MaxOps
    /\ r \in OutcomesOf(o)
    /\ clientMetrics' = MetricsAfter(clientMetrics, o, r)
    /\ arg' = Append(arg, o)
    /\ ret' = [threw |-> Throws(o, r), type |-> r, data |-> <<>>, error |-> ""]
    /\ UNCHANGED <<clusterNodes, nodeConnections, nodeMetrics, cc>>
    /\ UNCHANGED <<listening, emitted>>
    /\ UNCHANGED <<connVars, poolVars, clusterVars, pipeVars>>

InitSpecMetrics ==
    /\ InitConn /\ InitPool /\ InitCluster /\ InitPipe /\ InitCall
    /\ ~pipeBinary /\ ~overPool
    /\ ~useBinaryProtocol /\ strategy = "round_robin"

NextMetrics == \E o \in PublicOps, r \in ResponseTypes \cup {"throw"} : PublicOp(o, r)

SpecMetrics == InitSpecMetrics /\ [][NextMetrics]_vars

(***************************************************************************)
(* Properties of the connection (SpecConn).                                *)
(***************************************************************************)
\* C1: FIFO correlation.  As long as no write failed and the queue was never
\* flushed, the i-th frame handleData extracts is the i-th reply of the peer
\* and is matched to the i-th request sent, whatever the chunk boundaries; a
\* request that was resolved holds exactly that frame.
C1_FifoCorrelation ==
    clean =>
        /\ Len(delivered) <= Len(sent)
        /\ Len(delivered) <= Len(frames)
        /\ \A i \in 1..Len(delivered) :
              /\ delivered[i][1] = sent[i]
              /\ delivered[i][2] = frames[i]
              /\ req[sent[i]].st = "resolved" => req[sent[i]].val = frames[i]
        /\ \A i \in ReqIds :
              req[i].st = "resolved" => \E j \in 1..Len(delivered) : delivered[j][1] = i

\* Two requests of one pipeline were sent before any reply and both replies
\* were matched.
C1_Witness ==
    /\ clean
    /\ Len(delivered) >= 2
    /\ req[1].st = "resolved" /\ req[2].st = "resolved"
    /\ req[2].kind = "pipe"

\* C8: timeout isolation.  A step in which the timer of a pending request
\* rejects it with a timeout error changes no other request, leaves every
\* record in the queue and leaves the connection connected.
IsTimeoutError(e) == e \in {"Command timeout", "Pipeline command timeout"}

C8_TimeoutIsolation ==
    [][\A i \in ReqIds :
          (req[i].st = "pending" /\ req'[i].st = "rejected" /\ IsTimeoutError(req'[i].err))
          => /\ \A j \in ReqIds \ {i} : req'[j] = req[j]
             /\ pendingResponses' = pendingResponses
             /\ connected' = connected
             /\ sock' = sock]_vars

\* One request timed out while another one is still pending with its timer
\* armed, on a connected connection.
C8_Witness ==
    /\ connected
    /\ \E i, j \in ReqIds :
          /\ req[i].st = "rejected" /\ req[i].err = "Command timeout"
          /\ req[j].st = "pending" /\ req[j].timer
          /\ i \in Range(pendingResponses) /\ j \in Range(pendingResponses)

\* A data event completes the reply of the peer to request i, which timed
\* out before, while request j, sent next, is pending.  (No write failed and
\* the queue was never flushed, so the replies completed so far are those to
\* the first requests sent.)
LateReply(i, j) ==
    /\ clean
    /\ Len(sent) >= Len(delivered) + 2
    /\ sent[Len(delivered) + 1] = i /\ sent[Len(delivered) + 2] = j
    /\ req[i].st = "rejected" /\ req[i].err = "Command timeout"
    /\ req[j].st = "pending"
    /\ Len(delivered') > Len(delivered)
    /\ SocketData

\* C24 as stated: the reply of the peer to a request that timed out,
\* arriving afterwards, is delivered as the response of the next request.
C24_LateReplyToNext ==
    [][\A i, j \in ReqIds :
          LateReply(i, j) => delivered'[Len(delivered) + 1][1] = j]_vars

\* C24, amended: the record of a request that timed out stays in the queue,
\* so the reply that arrives afterwards is consumed by that record (the
\* request stays rejected with its timeout) and the next request is resolved
\* with the reply after it, its own.
C24_LateReplyConsumed ==
    [][\A i, j \in ReqIds :
          LateReply(i, j)
          => /\ delivered'[Len(delivered) + 1][1] = i
             /\ req'[i].st = "rejected" /\ req'[i].err = "Command timeout"
             /\ Len(delivered') = Len(delivered) + 1 => req'[j] = req[j]
             /\ Len(delivered') >= Len(delivered) + 2
                   => /\ delivered'[Len(delivered) + 2][1] = j
                      /\ req'[j].st = "resolved"
                      /\ req'[j].val = delivered'[Len(delivered) + 2][2]]_vars

\* A request timed out, its reply arrived later and went to its own record,
\* and the request sent after it was resolved with the second reply.
C24_Witness ==
    /\ clean /\ Len(sent) = 2 /\ Len(frames) = 2 /\ Len(delivered) = 2
    /\ req[sent[1]].st = "rejected" /\ req[sent[1]].err = "Command timeout"
    /\ delivered[1] = <<sent[1], frames[1]>>
    /\ req[sent[2]].st = "resolved" /\ req[sent[2]].val = frames[2]
    /\ frames[1] # frames[2]

\* C9: after the handler of a socket 'error', 'close' or 'timeout' event
\* every request that was outstanding is rejected, the queue is empty and
\* isConnected() is false.
C9_SocketEventsDisconnect ==
    [][(SocketError \/ SocketClose \/ SocketTimeoutEvent)
          => /\ pendingResponses' = <<>>
             /\ \A i \in Range(pendingResponses) : req'[i].st = "rejected"
             /\ ~connected']_vars

\* C10: connect() during an attempt in flight starts no second socket
\* connect, every caller settles with the outcome of the attempt, and
\* connect() on a connected connection returns without reconnecting.
C10_SharedConnect ==
    [][/\ attempts' # attempts => (~connecting /\ ~connected)
       /\ \A c \in CallerIds :
             (callers[c] = "init" /\ callers'[c] # "init")
             => \A d \in CallerIds : callers[d] = "shared" => callers'[d] = callers'[c]
       /\ \A c \in CallerIds :
             (callers[c] = "idle" /\ callers'[c] # "idle" /\ connected)
             => (callers'[c] = "resolved" /\ attempts' = attempts)]_vars

\* C11: framing is independent of fragmentation.  However the socket has
\* split the bytes fed so far, the frames extracted so far followed by what
\* one more chunk holding all the remaining bytes would extract are the
\* frames (and leave the buffer and the queue) that one chunk holding the
\* whole byte sequence yields; once every byte is fed, the extracted frames
\* and the leftover buffer are those of the one-chunk feed.
C11_FragmentationIndependent ==
    LET whole == handleData(useBinaryProtocol, <<>>,
                            WireOf(useBinaryProtocol, frames), [i \in 1..nreq |-> i])
        rest == handleData(useBinaryProtocol, responseBuffer, wire, pendingResponses)
    IN  /\ delivered \o rest.out = whole.out
        /\ rest.buf = whole.buf
        /\ rest.pend = whole.pend
        /\ wire = <<>> => (delivered = whole.out /\ responseBuffer = whole.buf)

\* A frame was extracted and the bytes after it, fed by a chunk that ended
\* inside the next frame, wait in the buffer for the rest of the sequence.
C11_Witness ==
    /\ Len(delivered) >= 1
    /\ responseBuffer # <<>>
    /\ wire # <<>>
    /\ pendingResponses # <<>>
    /\ ~extractResponse(useBinaryProtocol, responseBuffer).found

(***************************************************************************)
(* Properties of the pool (SpecPool).                                      *)
(***************************************************************************)
\* C2: the pool never holds more than poolSize connections.
C2_PoolCapacity == Len(pool) <= PoolSize

\* C3: exclusive ownership.  Two acquire() calls that both hold a connection
\* they have not released hold different connections.
C3_ExclusiveOwnership ==
    \A k1, k2 \in AcqIds :
        (k1 # k2 /\ acq[k1].st = "holding" /\ acq[k2].st = "holding")
        => acq[k1].c # acq[k2].c

\* One call holds a pooled connection while another call polls for one.
C3_Witness ==
    \E k1, k2 \in AcqIds :
        /\ acq[k1].st = "holding" /\ acq[k1].c \in PoolConns(pool)
        /\ acq[k2].st = "waiting"

\* C7: health eviction.  A probe that times out removes and destroys the
\* connection exactly when it is its 4th consecutive failed probe; no pooled
\* connection has 4 consecutive failed probes behind it; an answered probe
\* resets the failure counter; a connection that left the pool never returns
\* to it, and acquire() only returns connected connections of the pool.
C7_HealthEviction ==
    [][/\ \A c \in ConnIds :
             (ProbeFail(c) /\ c \in PoolConns(pool))
             => /\ (c \notin PoolConns(pool')) <=> (consec[c] + 1 = HealthThreshold + 1)
                /\ c \notin PoolConns(pool') => conn'[c].st = "destroyed"
       /\ \A c \in PoolConns(pool') : consec'[c] <= HealthThreshold
       /\ \A c \in ConnIds :
             (ProbeOk(c) /\ c \in PoolConns(pool))
             => pool'[IndexOfConn(pool', c)].fails = 0
       /\ \A c \in PoolConns(pool') \ PoolConns(pool) : conn[c].st = "connecting"
       /\ \A k \in AcqIds :
             (acq[k].st # "holding" /\ acq'[k].st = "holding")
             => (acq'[k].c \in PoolConns(pool') /\ conn'[acq'[k].c].st = "up")]_vars

\* A connection was evicted by its 4th consecutive failed probe (destroyed,
\* no longer pooled) while a caller holds another connection of the pool.
C7_Witness ==
    \E c \in ConnIds :
        /\ conn[c].st = "destroyed"
        /\ c \notin PoolConns(pool)
        /\ \E k \in AcqIds :
              acq[k].st = "holding" /\ acq[k].c # c /\ acq[k].c \in PoolConns(pool)

\* C12: saturated acquire.  acquire() called on a pool at capacity with no
\* idle connected connection stays pending; a pending call stays pending as
\* long as the pool has no idle connected connection, and it ends either by
\* returning a connection that was idle and connected in the pool, which it
\* marks in use and which no other call holds, or by its connectionTimeout
\* timer rejecting it ('Pool acquisition timeout').
C12_SaturatedAcquire ==
    [][LET idle == { i \in 1..Len(pool) :
                       ~pool[i].inUse /\ conn[pool[i].c].st \in {"up", "destroyed"} }
       IN  \A k \in AcqIds :
             /\ (AcquireCall(k) /\ Len(pool) >= PoolSize /\ idle = {})
                   => acq'[k].st = "waiting"
             /\ (acq[k].st = "waiting" /\ idle = {})
                   => acq'[k].st \in {"waiting", "timedout"}
             /\ (acq[k].st = "waiting" /\ acq'[k] # acq[k])
                   => \/ acq'[k].st = "timedout"
                      \/ /\ acq'[k].st = "holding"
                         /\ \E i \in idle :
                               /\ pool[i].c = acq'[k].c
                               /\ Len(pool') = Len(pool)
                               /\ pool'[i].c = acq'[k].c /\ pool'[i].inUse
                         /\ \A j \in AcqIds \ {k} :
                               acq'[j].st = "holding" => acq'[j].c # acq'[k].c]_vars

\* A call made on a saturated pool was rejected by its timer while every
\* connection of the pool is still in use.
C12_Witness ==
    \E k \in AcqIds :
        /\ acq[k].st = "timedout"
        /\ Len(pool) >= PoolSize
        /\ \A i \in 1..Len(pool) : pool[i].inUse

\* C13: acquire/release round-trip.  From an empty pool, as long as no
\* connection failed, closed or was evicted and no call was made on a
\* saturated pool and timed out, acquire() calls made one after another
\* create at most poolSize connections in all (every creation is a counted
\* miss and is pooled), and a call made while fewer connections are held
\* than the pool contains - every call of a round after the first - is a
\* pool hit: it returns a pooled connection at once, creates nothing and
\* leaves poolMisses as it was.
C13_Healthy ==
    /\ \A c \in ConnIds : conn[c].st \in {"none", "connecting", "up"}
    /\ \A k \in AcqIds : acq[k].st \notin {"timedout", "rejected"}

C13_RoundTrip ==
    [][/\ C13_Healthy'
          => /\ metrics'.totalCreated <= PoolSize
             /\ metrics'.totalCreated = Len(pool')
             /\ metrics'.poolMisses = metrics'.totalCreated
       /\ \A k \in AcqIds :
             (/\ SeqAcquire(k)
              /\ C13_Healthy
              /\ Cardinality({ j \in AcqIds : acq[j].st = "holding" }) < Len(pool))
             => /\ acq'[k].st = "holding"
                /\ acq'[k].c \in PoolConns(pool)
                /\ conn' = conn
                /\ metrics'.poolHits = metrics.poolHits + 1
                /\ metrics'.poolMisses = metrics.poolMisses
                /\ metrics'.totalCreated = metrics.totalCreated]_vars

\* Second round: the connection the first round created and released is
\* held again, by a call that was a hit.
C13_Witness ==
    /\ C13_Healthy
    /\ \E k1, k2 \in AcqIds :
          /\ acq[k1].st = "released"
          /\ acq[k2].st = "holding" /\ acq[k2].c \in PoolConns(pool)
    /\ metrics.poolHits >= 1
    /\ metrics.totalCreated = 1

\* C14: warmUp(n) that completes on a pool holding c connections, none of
\* which failed or closed meanwhile, leaves max(c, min(n, poolSize))
\* connections in the pool (when it has connections to create, c is below
\* min(n, poolSize) and the maximum is min(n, poolSize)); every connection it
\* creates is pooled idle; and acquire() called after it on a pool with an
\* idle connected connection is a hit that creates no connection.
C14_WarmUpFills ==
    [][/\ \A n \in 1..(PoolSize + 1) :
             (WarmUp(n) /\ warm'.st = "done")
             => Len(pool') = (IF Len(pool) > Min(n, PoolSize)
                              THEN Len(pool) ELSE Min(n, PoolSize))
       /\ (/\ warm.st = "running" /\ warm'.st = "done"
           /\ \A c \in ConnIds : conn'[c].st \in {"none", "connecting", "up"})
             => Len(pool') = warm.goal
       /\ \A c \in ConnIds :
             (CreateDone(c) /\ conn[c].warm) => c \in IdleConns(pool')
       /\ \A k \in AcqIds :
             (AcquireCall(k) /\ warm.st = "done" /\ Probed(pool) # {})
             => (acq'[k].st = "holding" /\ conn' = conn
                 /\ metrics'.poolHits = metrics.poolHits + 1)]_vars

(***************************************************************************)
(* Properties of the cluster client (SpecCluster).                         *)
(***************************************************************************)
\* C4: in cluster mode every cache operation takes its connection from the
\* pool of a node that selectNode() chose among the active nodes.
C4_ClusterRouting ==
    (enableCluster /\ op.st # "none") => (op.pool = "node" /\ op.node \in Nodes)

\* C5: failover transition.  A failed health check of node n leaves n
\* inactive; selectNode() never returns an inactive node; an answered health
\* check of n leaves n active and in the list the next selection chooses from.
C5_FailoverTransition ==
    [][/\ \A n \in Nodes :
             (\E stage \in {"acquire", "timeout", "error"} : HealthCheckFail(n, stage))
             => ~active'[n]
       /\ \A n \in Nodes :
             HealthCheckOk(n)
             => (active'[n] /\ \E i \in 1..Len(ActiveNodes(active')) :
                                    ActiveNodes(active')[i] = n)
       /\ (SelectNode /\ selected'.res = "node") => active[selected'.node]
       /\ (SelectNode /\ enableCluster /\ selected'.res = "throw")
             => \A n \in Nodes : ~active[n]]_vars

\* A node failed a health check and is inactive, and a selection returned
\* another node.
C5_Witness ==
    \E n \in Nodes :
        /\ ~active[n] /\ status[n] = "unhealthy"
        /\ selected.res = "node" /\ selected.node # n
        /\ failoverEvents >= 1

\* C6: in cluster mode an operation issued while some node is active and
\* able to serve it (its server answers, its pool has a connection to give),
\* and another node is down or inactive, does not reject.
C6_NodeFailuresAbsorbed ==
    [][(/\ ExecuteCommand
        /\ enableCluster
        /\ \E n \in Nodes : active[n] /\ nodeUp[n] /\ PoolAvailable(n)
        /\ \E n \in Nodes : ~active[n] \/ ~nodeUp[n])
          => op'.st # "rejected"]_vars

(***************************************************************************)
(* Properties of the pipeline (SpecPipe).                                  *)
(***************************************************************************)
\* The reply the peer produced for a request it received.
FrameFor(id) == frames[CHOOSE k \in 1..Len(sent) : sent[k] = id]

\* C15: pipeline order preservation.  execute() on N queued commands makes
\* one write that carries the N encoded commands in queue order, with one
\* request per command; when it resolves, it resolves with N results, and
\* result i is the decoded reply the peer gave to command i.
C15_PipelineOrder ==
    LET n == Len(px.cmds) IN
    /\ (px.st = "sending" /\ writes # <<>>)
          => (Len(writes) = 1 /\ writes[1].reqs = px.ids)
    /\ px.st \in {"sending", "resolved"}
          => /\ Len(px.ids) = n
             /\ px.data = ConcatAll([i \in 1..n |-> encodeCommand(pipeBinary, px.cmds[i]).bytes])
    /\ (px.st = "resolved" /\ n > 0)
          => /\ Len(results) = n
             /\ \A i \in 1..n :
                   /\ px.ids[i] \in Range(sent)
                   /\ results[i] = DecodeItem(pipeBinary, FrameFor(px.ids[i]))

\* An execute() of two commands resolved with two different results.
C15_Witness ==
    /\ px.st = "resolved" /\ px.own = "main"
    /\ Len(px.cmds) = 2 /\ px.cmds[1] # px.cmds[2]
    /\ Len(results) = 2 /\ results[1] # results[2]
    /\ results[1].success

\* C16: after execute() on a non-empty pipeline settles, resolved or
\* rejected, whatever step failed (acquiring a connection from the pool,
\* encoding, sending, waiting for the replies), the command list of the
\* pipeline is empty.
C16_CommandsCleared ==
    (px.st \in Settled /\ px.cmds # <<>>) => OwnList = <<>>

\* C17: over a pool, execute() releases the connection it acquired exactly
\* once on every path that follows a successful acquire (return, encode
\* error, write error, reply timeout), and not before it settles; over a
\* direct connection, and when the acquire failed, it never calls release.
C17_ReleaseOnce ==
    /\ (px.st \in Settled /\ px.acquired) => px.released = 1
    /\ px.st \in {"idle", "acquiring", "sending"} => px.released = 0
    /\ ~px.acquired => px.released = 0
    /\ px.acquired => overPool
    /\ (overPool /\ px.cmds # <<>> /\ px.st \in {"sending", "resolved"}) => px.acquired
    /\ (overPool /\ px.st = "rejected" /\ px.step # "acquire") => px.acquired

\* Over a pool, an execute() whose write succeeded was rejected by the timer
\* of one of its requests and released its connection.
C17_Witness ==
    /\ overPool /\ px.st = "rejected" /\ px.acquired /\ px.released = 1
    /\ \E i \in Range(px.ids) : req[i].err = "Pipeline command timeout"

\* The raw response execute() received for its i-th command.
RawResponse(i) == req[px.ids[i]].val

\* C18: decode-failure isolation.  A raw response whose decoding throws does
\* not make execute() reject: it resolves with N results, the result of that
\* response is a failure item carrying the error, and every other result is
\* the decoded response at its own index.
C18_DecodeIsolation ==
    /\ px.st = "rejected" => px.step \in {"acquire", "encode", "connect", "send"}
    /\ (px.st = "resolved" /\ px.cmds # <<>>)
          => /\ Len(results) = Len(px.cmds)
             /\ \A i \in 1..Len(px.cmds) :
                   LET decoded == decodeResponse(pipeBinary, RawResponse(i)) IN
                   IF decoded.threw
                   THEN results[i] = Item(FALSE, "", <<>>, decoded.error)
                   ELSE results[i] = convertToResponse(decoded)

\* An execute() of two commands resolved although the decoding of its first
\* response threw; its second result is the decoded second response.
C18_Witness ==
    /\ px.st = "resolved" /\ Len(px.cmds) = 2 /\ Len(results) = 2
    /\ decodeResponse(pipeBinary, RawResponse(1)).threw
    /\ ~decodeResponse(pipeBinary, RawResponse(2)).threw
    /\ ~results[1].success /\ results[1].error = "Empty binary response"
    /\ results[2].success

\* Math.ceil(n / b) for n >= 0 and b >= 1.
CeilDiv(n, b) == (n + b - 1) \div b

\* C19: executeBatched(b) with b >= 1 on N queued commands runs ceil(N/b)
\* execute() calls one after another, each over at most b consecutive
\* commands, and when every chunk succeeds returns the N results in command
\* order: result i is the decoded reply to command i, as one execute() of
\* the N commands returns it.
C19_BatchedSequential ==
    LET n == Len(batch.copy)
        b == batch.size
    IN  /\ batch.st = "running"
              => /\ Len(batch.chunks) <= CeilDiv(n, b)
                 /\ Len(writes) <= 1
                 /\ \A id \in Range(batch.ids) :
                       /\ req[id].st = "resolved"
                       /\ \A id2 \in Range(px.ids) : id < id2
                 /\ px.cmds = batch.chunks[Len(batch.chunks)]
        /\ batch.st # "idle"
              => \A k \in 1..Len(batch.chunks) :
                    /\ Len(batch.chunks[k]) \in 1..b
                    /\ batch.chunks[k] = SubSeq(batch.copy, (k - 1) * b + 1,
                                                Min(k * b, n))
        /\ (batch.st = "resolved" /\ n > 0)
              => /\ Len(batch.chunks) = CeilDiv(n, b)
                 /\ ConcatAll(batch.chunks) = batch.copy
                 /\ commands = <<>>
                 /\ Len(batch.ids) = n /\ Len(batch.all) = n
                 /\ \A i \in 1..n :
                       batch.all[i] = DecodeItem(pipeBinary, FrameFor(batch.ids[i]))

\* executeBatched(1) on two commands ran two execute() calls and resolved
\* with two different results.
C19_Witness ==
    /\ batch.st = "resolved" /\ batch.size = 1
    /\ Len(batch.copy) = 2 /\ Len(batch.chunks) = 2
    /\ Len(batch.all) = 2 /\ batch.all[1] # batch.all[2]

(***************************************************************************)
(* Round-robin selection (SpecCluster).                                    *)
(***************************************************************************)
\* How many of the selections at the indices from..(from + count - 1) over
\* the list nodes return the node n.
TimesSelected(nodes, from, count, n) ==
    Cardinality({ j \in from..(from + count - 1) : selectRoundRobin(nodes, j) = n })

\* C20: a round-robin selection returns a member of the current active
\* list, whatever changes the active set underwent since the previous call,
\* and moves the index on by one; while the active set of size n stays as it
\* is, every run of k*n consecutive selections from the current index on
\* returns each active node exactly k times.
C20_RoundRobin ==
    /\ [][(SelectNode /\ enableCluster /\ strategy = "round_robin"
              /\ ActiveNodes(active) # <<>>)
            => /\ selected'.res = "node"
               /\ selected'.node \in Range(ActiveNodes(active))
               /\ active[selected'.node]
               /\ selected'.node = selectRoundRobin(ActiveNodes(active), currentNodeIndex)
               /\ currentNodeIndex' = currentNodeIndex + 1]_vars
    /\ [](LET nodes == ActiveNodes(active) IN
          (enableCluster /\ strategy = "round_robin" /\ nodes # <<>>)
            => /\ (currentNodeIndex % Len(nodes)) + 1 \in DOMAIN nodes
               /\ \A from \in currentNodeIndex..MaxSelect, k \in 1..MaxSelect :
                     \A n \in Range(nodes) :
                        TimesSelected(nodes, from, k * Len(nodes), n) = k)

\* Round-robin selections went once round a list of two active nodes and
\* came back to the first.
C20_Witness ==
    /\ enableCluster /\ strategy = "round_robin"
    /\ Len(ActiveNodes(active)) = 2
    /\ currentNodeIndex >= 3
    /\ selected.res = "node"
    /\ selected.node = ActiveNodes(active)[1]

\* C23: decodeBinaryResponse classifies its input by the first byte: the
\* tags 0x10, 0x11, 0x12 give ok, pong, null; an empty input throws 'Empty
\* binary response'; a first byte outside 0x10..0x15 throws 'Unknown binary
\* response type'; no result is returned for an empty or unknown-tag input.
C23_DecoderClassifies ==
    ret # NoRet =>
        /\ arg = <<>> => (ret.threw /\ ret.error = "Empty binary response")
        /\ arg # <<>> =>
             /\ arg[1] = RESP_OK => (~ret.threw /\ ret.type = "ok")
             /\ arg[1] = RESP_PONG => (~ret.threw /\ ret.type = "pong")
             /\ arg[1] = RESP_NULL => (~ret.threw /\ ret.type = "null")
             /\ arg[1] \notin RESP_OK..RESP_STATS
                  => (ret.threw /\ ret.error = "Unknown binary response type")

C23_Witness ==
    /\ arg = <<BadTag, RESP_OK>>
    /\ ret.threw /\ ret.error = "Unknown binary response type"

\* C25: in binary framing a first buffered byte that is no response tag is
\* a fatal protocol error of the connection: once handleData has met it, the
\* outstanding requests have been failed, none is left waiting for more data.
C25_UnknownTagFatal ==
    (/\ useBinaryProtocol
     /\ responseBuffer # <<>>
     /\ responseBuffer[1] \notin ResponseTags)
       => /\ pendingResponses = <<>>
          /\ \A i \in ReqIds : req[i].st # "pending"

\* C26: every connection a health check acquired from a node's pool is back
\* in the pool once the probe of that node has finished, whether the PING
\* succeeded, failed or timed out: no finished probe holds a connection.
C26_ProbeReleases == \A n \in Nodes : ~hc[n] => leaked[n] = 0

\* C22: cluster connect() starts the warm-up of every node pool at once; a
\* node whose warm-up throws is marked inactive and reported with
\* nodeConnectionFailed while the other nodes' warm-ups go on; connect()
\* settles when the last warm-up has settled, and rejects exactly when no
\* node is active at that moment.
C22_ClusterConnect ==
    /\ [][ClientConnect => \A n \in Nodes : cc'.warm[n] = "pending"]_vars
    /\ [][\A n \in Nodes :
            (cc.st = "running" /\ cc.warm[n] = "pending" /\ cc'.warm[n] = "failed")
              => /\ ~active'[n]
                 /\ n \in cc'.failed
                 /\ \A m \in Nodes \ {n} : cc'.warm[m] = cc.warm[m]]_vars
    /\ [][(cc.st = "running" /\ cc'.st # "running")
            => /\ AllSettled(cc'.warm)
               /\ cc'.st \in {"resolved", "rejected"}
               /\ (cc'.st = "rejected") <=> (\A n \in Nodes : ~active'[n])]_vars
    /\ [](cc.st = "running" => ~AllSettled(cc.warm))
    /\ [](cc.failed = { n \in Nodes : cc.warm[n] = "failed" })

C22_Witness ==
    /\ cc.st = "resolved"
    /\ cc.warm[1] = "failed" /\ cc.warm[2] = "ok"
    /\ cc.failed = {1}
    /\ ~active[1] /\ active[2]

\* C27 as stated: a node's active flag changes only in a step of a cluster
\* health check of that node.
C27_OnlyHealthChecks ==
    [][\A n \in Nodes : active'[n] # active[n] => (hc[n] /\ ~hc'[n])]_vars

\* C27, amended: a node's active flag changes only in a step of a health
\* check of that node, or to inactive in connect() when the warm-up of that
\* node's pool throws; selection, cache operations, statistics and
\* disconnect() leave every flag as it is.
C27_FlagWriters ==
    [][\A n \in Nodes :
         active'[n] # active[n]
           => \/ hc[n] /\ ~hc'[n]
              \/ /\ cc.st = "running" /\ cc.warm[n] = "pending"
                 /\ cc'.warm[n] = "failed" /\ ~active'[n]]_vars

C27_Witness ==
    /\ cc.st = "closed"
    /\ cc.warm[1] = "failed" /\ ~active[1] /\ status[1] = "unknown"
    /\ active[2] /\ status[2] = "healthy"
    /\ selected.res = "node"
    /\ op.st = "rejected"
    /\ ret.type = "stats"

\* C28: in a cluster-mode client the node map, the pool map and the metrics
\* map hold the same keys in every state.
C28_MapsInSync ==
    enableCluster =>
        /\ clusterNodes = nodeConnections
        /\ clusterNodes = nodeMetrics

C28_Witness ==
    /\ enableCluster
    /\ clusterNodes = Nodes /\ nodeConnections = Nodes /\ nodeMetrics = Nodes
    /\ cc.st = "closed"
    /\ \E n \in Nodes : status[n] = "unhealthy"

\* C29: the hit_ratio of the cluster statistics is the arithmetic mean of the
\* hit_ratio values of the nodes that answered STATS (with one answering node,
\* that node's hit_ratio); the counters are their sums and uptime_seconds is
\* their maximum.
RECURSIVE SumOf(_, _)
SumOf(nodeStats, field) ==
    IF nodeStats = <<>> THEN 0
    ELSE Head(nodeStats)[field] + SumOf(Tail(nodeStats), field)

C29_StatsAggregation ==
    LET nodeStats == CollectStats(arg, ActiveNodes(active)) IN
    (ret.type = "stats" /\ nodeStats # <<>>)
      => /\ ret.data.hit_ratio * Len(nodeStats) = SumOf(nodeStats, "hit_ratio")
         /\ ret.data.total_operations = SumOf(nodeStats, "total_operations")
         /\ ret.data.cache_hits = SumOf(nodeStats, "cache_hits")
         /\ \A k \in 1..Len(nodeStats) :
               ret.data.uptime_seconds >= nodeStats[k].uptime_seconds
         /\ \E k \in 1..Len(nodeStats) :
               ret.data.uptime_seconds = nodeStats[k].uptime_seconds

\* C30: when the write of a sendCommand() call fails, the request that is
\* rejected and taken out of pendingResponses is that call's own request,
\* whatever other requests are outstanding; no other request is touched.
C30_WriteFailOwn ==
    [][(/\ writes # <<>>
        /\ Head(writes).kind = "cmd"
        /\ req[Head(writes).reqs[1]].st = "pending"
        /\ Head(writes).reqs[1] \in Range(pendingResponses)
        /\ WriteFail)
         => LET i == Head(writes).reqs[1] IN
            /\ req'[i].st = "rejected" /\ req'[i].err = "write error"
            /\ i \notin Range(pendingResponses')
            /\ \A j \in ReqIds \ {i} : req'[j] = req[j]
            /\ pendingResponses' = SelectSeq(pendingResponses, LAMBDA x : x # i)]_vars

\* C31: when the write of a sendPipelineCommands() call fails, the records
\* that are rejected and taken out of pendingResponses are exactly the
\* records that call queued; the records of other requests stay queued and
\* their requests are not touched.
C31_PipelineWriteFailOwn ==
    [][(/\ writes # <<>>
        /\ Head(writes).kind = "pipe"
        /\ \A k \in 1..Len(Head(writes).reqs) :
              Head(writes).reqs[k] \in Range(pendingResponses)
        /\ WriteFail)
         => LET own == Range(Head(writes).reqs) IN
            /\ pendingResponses' = SelectSeq(pendingResponses, LAMBDA x : x \notin own)
            /\ \A i \in own : req[i].st = "pending"
                                 => (req'[i].st = "rejected" /\ req'[i].err = "write error")
            /\ \A j \in ReqIds \ own : req'[j] = req[j]]_vars

\* C32: failoverEvents is incremented and nodeFailure emitted exactly in the
\* health-check steps that turn a node from active to inactive; nodeRecovered
\* is emitted exactly in the health-check steps that turn a node from
\* inactive to active; a failed check of an inactive node and a passed check of
\* an active node change neither the counter nor the flag and emit nothing;
\* no other step changes the counter or emits one of these events.
HealthCheckStep(n) == hc[n] /\ ~hc'[n]

C32_FailoverAccounting ==
    /\ [][\A n \in Nodes :
            HealthCheckStep(n)
              => /\ (active[n] /\ ~active'[n])
                      => /\ failoverEvents' = failoverEvents + 1
                         /\ emitted' = <<[type |-> "nodeFailure", node |-> n]>>
                 /\ (~active[n] /\ active'[n])
                      => /\ failoverEvents' = failoverEvents
                         /\ emitted' = <<[type |-> "nodeRecovered", node |-> n]>>
                 /\ active'[n] = active[n]
                      => (failoverEvents' = failoverEvents /\ emitted' = <<>>)
                 /\ (status'[n] = "unhealthy" /\ ~active[n]) => ~active'[n]
                 /\ (status'[n] = "healthy" /\ active[n]) => active'[n]]_vars
    /\ [][(\A n \in Nodes : ~HealthCheckStep(n))
            => (failoverEvents' = failoverEvents /\ emitted' = emitted)]_vars

C32_Witness ==
    /\ listening
    /\ failoverEvents = 2
    /\ emitted = <<[type |-> "nodeRecovered", node |-> 1]>>
    /\ active[1] /\ ~active[2] /\ status[2] = "unhealthy"
    /\ cc.warm[2] = "failed"

\* C33: an acquire() call that has rejected with 'Pool acquisition timeout'
\* takes no further step that marks a connection in use or counts a pool
\* hit; so every record flagged in use is held by a caller (or by a creation
\* in progress) that can release it.
C33_NoGrantAfterTimeout ==
    /\ [][\A k \in AcqIds :
            (acq[k].st = "timedout" /\ acq'[k] # acq[k])
              => /\ \A i \in 1..Len(pool) :
                       (i <= Len(pool') /\ pool'[i].inUse = pool[i].inUse)
                 /\ metrics'.poolHits = metrics.poolHits]_vars
    /\ [](\A i \in 1..Len(pool) :
            pool[i].inUse
              => \E k \in AcqIds : acq[k].st = "holding" /\ acq[k].c = pool[i].c)

\* C34: while a health probe of the pool is outstanding on a connection, no
\* acquire() call hands that connection to a caller: a probe and a caller
\* never use the same connection at the same time.
C34_ProbeExcludesCaller ==
    [][\A k \in AcqIds :
          (acq[k].st # "holding" /\ acq'[k].st = "holding") => ~probe[acq'[k].c]]_vars

\* C35: whenever execute() of a pipeline releases its connection to the
\* pool, the queue of outstanding requests of that connection is empty,
\* also when the operation ended with a command timeout.
C35_ReleasedQueueEmpty ==
    [][(px.released = 0 /\ px'.released > 0) => pendingResponses' = <<>>]_vars

\* C36: every sendCommand() call settles in the end: a request that is
\* queued is resolved or rejected, and a call that found the connection
\* disconnected or in the middle of a connection attempt gets out of its
\* await of connect().
C36_SendCommandSettles ==
    /\ \A i \in ReqIds :
          (req[i].st = "pending") ~> (req[i].st \in {"resolved", "rejected"})
    /\ \A c \in CallerIds :
          (callers[c] \in {"init", "shared"}) ~> (callers[c] \in {"resolved", "rejected"})

\* C37: after every pool operation (acquire, release, warmUp, a health-check
\* round, the removal of a connection, close) metrics.activeConnections is
\* the number of records in use and activeConnections + idleConnections is
\* the number of pooled connections.
C37_MetricsMatchPool ==
    /\ metrics.activeConnections =
           Cardinality({ i \in 1..Len(pool) : pool[i].inUse })
    /\ metrics.activeConnections + metrics.idleConnections = Len(pool)

\* close() emptied a list that still held a record in use.
C37_Witness ==
    /\ pool = <<>>
    /\ metrics.activeConnections = 0 /\ metrics.idleConnections = 0
    /\ \E k \in AcqIds : acq[k].st = "holding"
    /\ \E c \in ConnIds : conn[c].st = "failed"

\* C38: the request counters start at zero and every completed public
\* operation adds exactly one to totalRequests and to exactly one of
\* successfulRequests and failedRequests: totalRequests is the number of
\* completed operations and the sum of the two other counters.
C38_OneCountPerOperation ==
    /\ clientMetrics.totalRequests = Len(arg)
    /\ clientMetrics.totalRequests =
           clientMetrics.successfulRequests + clientMetrics.failedRequests

\* C39: in cluster mode a pipeline made by pipeline(), and so multi(), is
\* never executed against the pool of a node whose active flag is false at
\* the time of the execution.
C39_PipelineOnActiveNode ==
    [][(enableCluster /\ ClientPipeline) => active[op'.node]]_vars

\* C40: a frame that the binary framing extracts for ERROR, VALUE or STATS
\* (tag, length L as 4 bytes little-endian, L payload bytes) is decoded by
\* the binary decoder into exactly those L payload bytes.
C40_FramingAndDecodingAgree ==
    ret # NoRet =>
        LET L == ReadUInt32LE(arg, 1) IN
        /\ ~ret.threw
        /\ ret.data = Slice(arg, 5, 5 + L)

\* C21: under every load-balancing policy selectNode() returns only a node
\* whose active flag is true at the call, and it throws 'No active nodes
\* available in cluster' exactly when no node is active.
C21_SelectsActiveOnly ==
    [][(SelectNode /\ enableCluster)
         => /\ selected'.res \in {"node", "throw"}
            /\ (selected'.res = "throw") <=> (\A n \in Nodes : ~active[n])
            /\ selected'.res = "node"
                  => (selected'.node \in Nodes /\ active[selected'.node])]_vars

\* Under a policy other than round-robin a selection returned the second
\* node while the first node was inactive.
C21_Witness ==
    /\ enableCluster /\ strategy # "round_robin"
    /\ ~active[1] /\ active[2]
    /\ selected = [res |-> "node", node |-> 2]
====
